---- MODULE Spec2Model ----
(***************************************************************************)
(* A model of scripts/externalize_karospace_html.py: the chunk planner     *)
(* (split_array_for_target_bytes, split_utf8_text_by_bytes and the chunk   *)
(* writers), the loader's reconstruct, the boundary scanner                *)
(* (detect_candidates) and the mode orchestrator (run).                    *)
(*                                                                         *)
(* Texts are sequences of Unicode code points, files are sequences of      *)
(* bytes (0..255).  JSON values are records [t, v]:                        *)
(*   [t |-> "num", v |-> digits]   an integer literal, v its digits        *)
(*   [t |-> "str", v |-> cps]      a string of code points needing no      *)
(*                                 escape                                  *)
(*   [t |-> "arr", v |-> values]   a list                                  *)
(*   [t |-> "obj", v |-> members]  a dict, members are <<key, value>>      *)
(*                                                                         *)
(* Documents are sequences of lexemes (see the scanner section); offsets   *)
(* into a document are character offsets of the lexemes' texts.            *)
(*                                                                         *)
(* Several machines share the module, each with its own specification:       *)
(*   SpecPlan  a value and a budget through a chunk writer and the loader  *)
(*   SpecScan  a document through detect_candidates                        *)
(*   SpecRun   one run() of the command, step by filesystem step           *)
(*   SpecSplice   spans and texts through apply_replacements               *)
(*   SpecInject   a document through ensure_loader_runtime, twice          *)
(*   SpecAssign   a script body through detect_assignment_candidates, one  *)
(*                pass of its while loop at a time                         *)
(*   SpecLoader   the loader runtime in a page: calls of its methods and   *)
(*                the arrival of responses, in any order                   *)
(***************************************************************************)
EXTENDS Integers, Sequences, FiniteSets, TLC

VARIABLES
    \* ---- chunk planner and loader reconstruct (SpecPlan)
    value,               \* candidate.value handed to the chunk writers
    chunk_target_bytes,  \* the byte budget
    strategy,            \* "array_slices" | "text_concat" | "none"
    fragments,           \* array_slices / parts: what the splitter returned
    files,               \* the chunk files written, each a sequence of bytes
    plan_status,         \* "ok" | "ValueError" | "UnicodeDecodeError"
    reconstructed,       \* what loader.reconstruct returned from the files
    plan_pc,             \* "start" | "written" | "failed" | "loaded" | "idle"
    \* ---- boundary scanner (SpecScan)
    html,                \* the document text, a sequence of lexemes
    candidates,          \* what detect_candidates returned
    scan_pc,             \* "start" | "scanned" | "idle"
    \* ---- mode orchestrator (SpecRun)
    args,                \* the parsed command line and the state of the input path
    run_pc,              \* the statement of run() / externalize_to_directory reached
    error,               \* the exception that ended the run, "" without one
    failed_at,           \* the run_pc at which the exception was raised
    path_taken,          \* "none" | "single" | "directory": the branch run() took
    fs_log,              \* the filesystem effects so far, in order: [op, path]
    chunk_counter,       \* externalize_to_directory: chunk_counter
    blob_idx,            \* candidates handled so far (idx of the for loop)
    pending,             \* chunk files of the current candidate not yet written
    chunk_entries,       \* chunk entries of the current candidate so far
    manifest_blobs,      \* manifest["blobs"]
    replacements,        \* externalize_to_directory: replacements
    index_html,          \* the text written to index.html, <<>> before it exists
    \* ---- apply_replacements on its own (SpecSplice)
    spliced,             \* what apply_replacements returned
    splice_pc,           \* "start" | "applied" | "idle"
    \* ---- ensure_loader_runtime on its own (SpecInject)
    index_html_again,    \* ensure_loader_runtime applied to its own result
    inject_pc,           \* "start" | "once" | "twice" | "idle"
    \* ---- detect_assignment_candidates, pass by pass (SpecAssign)
    assign_body,         \* script_body, a sequence of lexemes
    assign_scan_pos,     \* scan_pos of the while loop
    assign_consumed_until, \* consumed_until of the while loop
    iterations,          \* passes of the while loop made so far
    assign_pc,           \* "loop" | "returned" | "idle"
    \* ---- the loader runtime in a page (SpecLoader)
    served,              \* what the server holds: manifest.json and the chunk files
    has_fetch,           \* typeof fetch === "function" in this browser
    loader_pc,           \* "start" | "ready" | "idle": the loader script has run
    _manifest,           \* loader._manifest with loader._manifestIndex
    _manifestPromise,    \* loader._manifestPromise: "null" or the promise's state
    _cache,              \* loader._cache: key -> value
    __KAROSPACE_DATA__,  \* window.__KAROSPACE_DATA__: key -> value
    _blobPromises,       \* loader._blobPromises: key -> the promise's state
    chunk_waits,         \* key -> the chunk fetches of its promise still in flight
    reading,             \* paths whose response has arrived, its body still being read
    requests,            \* the paths requested so far, in order
    responses,           \* the responses the latest step delivered
    calls,               \* calls of the loader's four methods made so far
    last_call,           \* the latest call: method, key, outcome, value
    completed            \* keys some getSync or getAsync has delivered a value for

planVars == <<value, chunk_target_bytes, strategy, fragments, files,
              plan_status, reconstructed, plan_pc>>

scanVars == <<html, candidates, scan_pc>>

runVars == <<args, run_pc, error, failed_at, path_taken, fs_log, chunk_counter,
             blob_idx, pending, chunk_entries, manifest_blobs, replacements,
             index_html>>

spliceVars == <<spliced, splice_pc>>

injectVars == <<index_html_again, inject_pc>>

assignVars == <<assign_body, assign_scan_pos, assign_consumed_until, iterations,
               assign_pc>>

loaderVars == <<served, has_fetch, loader_pc, _manifest, _manifestPromise, _cache,
               __KAROSPACE_DATA__, _blobPromises, chunk_waits, reading, requests, responses,
               calls,
               last_call, completed>>

auxVars == <<spliceVars, injectVars, assignVars, loaderVars>>

vars == <<planVars, scanVars, runVars, auxVars>>

----------------------------------------------------------------------------
(* Bounds of the model.                                                    *)

MaxItems == 3
MaxStrLen == 2
MaxBudget == 7
MaxScripts == 3
MaxThresholdBytes == 7
MaxChunkBytes == 3
MaxTextLen == 3
MaxTags == 3
MaxBodyLen == 4
MaxCalls == 2

----------------------------------------------------------------------------
(* Sequence helpers.                                                       *)

RECURSIVE ConcatAll(_)
ConcatAll(ss) == IF ss = <<>> THEN <<>> ELSE Head(ss) \o ConcatAll(Tail(ss))

Min(a, b) == IF a <= b THEN a ELSE b

RECURSIVE SeqsUpTo(_, _)
SeqsUpTo(S, n) ==
    IF n = 0 THEN {<<>>}
    ELSE LET shorter == SeqsUpTo(S, n - 1)
         IN  shorter \cup {Append(s, x) : s \in {t \in shorter : Len(t) = n - 1}, x \in S}

----------------------------------------------------------------------------
(* str.encode("utf-8") and bytes.decode("utf-8").                          *)

utf8_char(cp) ==
    IF cp < 128 THEN <<cp>>
    ELSE IF cp < 2048 THEN <<192 + (cp \div 64), 128 + (cp % 64)>>
    ELSE IF cp < 65536 THEN
        <<224 + (cp \div 4096), 128 + ((cp \div 64) % 64), 128 + (cp % 64)>>
    ELSE <<240 + (cp \div 262144), 128 + ((cp \div 4096) % 64),
           128 + ((cp \div 64) % 64), 128 + (cp % 64)>>

RECURSIVE encode_utf8(_)
encode_utf8(text) ==
    IF text = <<>> THEN <<>> ELSE utf8_char(Head(text)) \o encode_utf8(Tail(text))

\* (byte & 0b1100_0000) == 0b1000_0000
is_continuation(b) == (b \div 64) = 2

\* number of bytes the sequence led by byte b has, 0 for a byte that leads none
lead_width(b) ==
    IF b < 128 THEN 1
    ELSE IF b \div 32 = 6 THEN 2
    ELSE IF b \div 16 = 14 THEN 3
    ELSE IF b \div 8 = 30 THEN 4
    ELSE 0

decode_char(bs) ==
    IF Len(bs) = 1 THEN bs[1]
    ELSE IF Len(bs) = 2 THEN (bs[1] % 32) * 64 + (bs[2] % 64)
    ELSE IF Len(bs) = 3 THEN (bs[1] % 16) * 4096 + (bs[2] % 64) * 64 + (bs[3] % 64)
    ELSE (bs[1] % 8) * 262144 + (bs[2] % 64) * 4096 + (bs[3] % 64) * 64 + (bs[4] % 64)

\* bytes.decode("utf-8"): [ok, text]; ok is FALSE where Python raises
\* UnicodeDecodeError (a stray continuation byte, a truncated sequence)
RECURSIVE decode_utf8(_)
decode_utf8(bs) ==
    IF bs = <<>> THEN [ok |-> TRUE, text |-> <<>>]
    ELSE LET w == lead_width(bs[1])
         IN  IF w = 0 \/ w > Len(bs) THEN [ok |-> FALSE, text |-> <<>>]
             ELSE IF \E k \in 2..w : ~is_continuation(bs[k])
                  THEN [ok |-> FALSE, text |-> <<>>]
             ELSE LET rest == decode_utf8(SubSeq(bs, w + 1, Len(bs)))
                  IN  IF rest.ok
                      THEN [ok |-> TRUE,
                            text |-> <<decode_char(SubSeq(bs, 1, w))>> \o rest.text]
                      ELSE rest

----------------------------------------------------------------------------
(* json.dumps(v, ensure_ascii=False, separators=(",", ":")).               *)

Num(digits) == [t |-> "num", v |-> digits]
Str(cps) == [t |-> "str", v |-> cps]
Arr(vals) == [t |-> "arr", v |-> vals]
Obj(members) == [t |-> "obj", v |-> members]

QUOTE == 34
COMMA == 44
COLON == 58
LBRACKET == 91
RBRACKET == 93
LBRACE == 123
RBRACE == 125

RECURSIVE json_dumps(_)
RECURSIVE dumps_items(_)
RECURSIVE dumps_members(_)
json_dumps(val) ==
    IF val.t = "num" THEN val.v
    ELSE IF val.t = "str" THEN <<QUOTE>> \o val.v \o <<QUOTE>>
    ELSE IF val.t = "arr" THEN <<LBRACKET>> \o dumps_items(val.v) \o <<RBRACKET>>
    ELSE <<LBRACE>> \o dumps_members(val.v) \o <<RBRACE>>
dumps_items(vals) ==
    IF vals = <<>> THEN <<>>
    ELSE IF Len(vals) = 1 THEN json_dumps(vals[1])
    ELSE json_dumps(vals[1]) \o <<COMMA>> \o dumps_items(Tail(vals))
dumps_members(ms) ==
    IF ms = <<>> THEN <<>>
    ELSE LET one == <<QUOTE>> \o ms[1][1] \o <<QUOTE, COLON>> \o json_dumps(ms[1][2])
         IN  IF Len(ms) = 1 THEN one ELSE one \o <<COMMA>> \o dumps_members(Tail(ms))

----------------------------------------------------------------------------
(* JSON.parse of the loader, on compact JSON text (no whitespace, no       *)
(* escapes): [ok, val, next], next the index after the value.              *)

ParseFail == [ok |-> FALSE, val |-> Num(<<>>), next |-> 0]

is_digit(c) == c >= 48 /\ c <= 57

RECURSIVE scan_while_digit(_, _)
scan_while_digit(s, i) ==
    IF i <= Len(s) /\ is_digit(s[i]) THEN scan_while_digit(s, i + 1) ELSE i

RECURSIVE scan_to_quote(_, _)
scan_to_quote(s, i) ==
    IF i > Len(s) THEN 0 ELSE IF s[i] = QUOTE THEN i ELSE scan_to_quote(s, i + 1)

RECURSIVE parse_value(_, _)
RECURSIVE parse_elements(_, _, _)
RECURSIVE parse_members(_, _, _)
parse_value(s, i) ==
    IF i > Len(s) THEN ParseFail
    ELSE IF is_digit(s[i]) THEN
        LET j == scan_while_digit(s, i)
        IN  [ok |-> TRUE, val |-> Num(SubSeq(s, i, j - 1)), next |-> j]
    ELSE IF s[i] = QUOTE THEN
        LET j == scan_to_quote(s, i + 1)
        IN  IF j = 0 THEN ParseFail
            ELSE [ok |-> TRUE, val |-> Str(SubSeq(s, i + 1, j - 1)), next |-> j + 1]
    ELSE IF s[i] = LBRACKET THEN
        IF i + 1 <= Len(s) /\ s[i + 1] = RBRACKET
        THEN [ok |-> TRUE, val |-> Arr(<<>>), next |-> i + 2]
        ELSE parse_elements(s, i + 1, <<>>)
    ELSE IF s[i] = LBRACE THEN
        IF i + 1 <= Len(s) /\ s[i + 1] = RBRACE
        THEN [ok |-> TRUE, val |-> Obj(<<>>), next |-> i + 2]
        ELSE parse_members(s, i + 1, <<>>)
    ELSE ParseFail
parse_elements(s, i, acc) ==
    LET e == parse_value(s, i)
    IN  IF ~e.ok \/ e.next > Len(s) THEN ParseFail
        ELSE IF s[e.next] = RBRACKET
             THEN [ok |-> TRUE, val |-> Arr(Append(acc, e.val)), next |-> e.next + 1]
        ELSE IF s[e.next] = COMMA THEN parse_elements(s, e.next + 1, Append(acc, e.val))
        ELSE ParseFail
parse_members(s, i, acc) ==
    LET k == parse_value(s, i)
    IN  IF ~k.ok \/ k.val.t # "str" \/ k.next > Len(s) \/ s[k.next] # COLON THEN ParseFail
        ELSE LET e == parse_value(s, k.next + 1)
                 ms == Append(acc, <<k.val.v, e.val>>)
             IN  IF ~e.ok \/ e.next > Len(s) THEN ParseFail
                 ELSE IF s[e.next] = RBRACE
                      THEN [ok |-> TRUE, val |-> Obj(ms), next |-> e.next + 1]
                 ELSE IF s[e.next] = COMMA THEN parse_members(s, e.next + 1, ms)
                 ELSE ParseFail

JSON_parse(text) ==
    LET r == parse_value(text, 1)
    IN  IF r.ok /\ r.next = Len(text) + 1 THEN r ELSE ParseFail

----------------------------------------------------------------------------
(* The chunk planner.                                                      *)

\* the inner while loop of split_utf8_text_by_bytes: back off while the byte
\* at `end` (0-based) is a continuation byte
RECURSIVE back_off(_, _)
back_off(payload, end) ==
    IF end >= 0 /\ end < Len(payload) /\ is_continuation(payload[end + 1])
    THEN back_off(payload, end - 1)
    ELSE end

\* the piece end chosen for the piece starting at idx (0-based offsets)
piece_end(payload, idx, max_bytes) ==
    LET total == Len(payload)
        backed == back_off(payload, Min(idx + max_bytes, total))
    IN  IF backed <= idx THEN Min(idx + max_bytes, total) ELSE backed

RECURSIVE split_loop(_, _, _, _)
split_loop(payload, idx, max_bytes, chunks) ==
    IF idx >= Len(payload) THEN [status |-> "ok", chunks |-> chunks]
    ELSE LET end == piece_end(payload, idx, max_bytes)
             piece == decode_utf8(SubSeq(payload, idx + 1, end))
         IN  IF ~piece.ok THEN [status |-> "UnicodeDecodeError", chunks |-> <<>>]
             ELSE split_loop(payload, end, max_bytes, Append(chunks, piece.text))

split_utf8_text_by_bytes(text, max_bytes) ==
    IF max_bytes <= 0 THEN [status |-> "ValueError", chunks |-> <<>>]
    ELSE LET payload == encode_utf8(text)
         IN  IF Len(payload) = 0 THEN [status |-> "ok", chunks |-> <<<<>>>>]
             ELSE split_loop(payload, 0, max_bytes, <<>>)

item_bytes_of(item) == Len(encode_utf8(json_dumps(item)))

\* mutant: the separating comma is not counted
projected_bytes_without_comma(current, current_bytes, item) ==
    current_bytes + Len(encode_utf8(json_dumps(item)))

\* projected = current_bytes + extra_comma + item_bytes
projected_bytes(current, current_bytes, item) ==
    current_bytes + (IF current # <<>> THEN 1 ELSE 0) + item_bytes_of(item)

\* the for loop of split_array_for_target_bytes, from item i on:
\* [chunks, current] when the loop ends
RECURSIVE array_loop(_, _, _, _, _, _)
array_loop(items, i, target_bytes, chunks, current, current_bytes) ==
    IF i > Len(items) THEN [chunks |-> chunks, current |-> current]
    ELSE LET item == items[i]
         IN  IF current # <<>> /\ projected_bytes(current, current_bytes, item) > target_bytes
             THEN array_loop(items, i + 1, target_bytes, Append(chunks, current),
                             <<item>>, 2 + item_bytes_of(item))
             ELSE array_loop(items, i + 1, target_bytes, chunks, Append(current, item),
                             projected_bytes(current, current_bytes, item))

\* mutant: the fragment still open when the loop ends is not appended
split_array_without_final_flush(items, target_bytes) ==
    IF target_bytes <= 0 THEN [status |-> "ValueError", chunks |-> <<>>]
    ELSE IF items = <<>> THEN [status |-> "ok", chunks |-> <<<<>>>>]
    ELSE [status |-> "ok",
          chunks |-> array_loop(items, 1, target_bytes, <<>>, <<>>, 2).chunks]

split_array_for_target_bytes(items, target_bytes) ==
    IF target_bytes <= 0 THEN [status |-> "ValueError", chunks |-> <<>>]
    ELSE IF items = <<>> THEN [status |-> "ok", chunks |-> <<<<>>>>]
    ELSE LET end == array_loop(items, 1, target_bytes, <<>>, <<>>, 2)
         IN  [status |-> "ok",
              chunks |-> IF end.current # <<>> THEN Append(end.chunks, end.current)
                         ELSE end.chunks]

\* write_array_chunks: one file per slice, json.dumps(arr) encoded as UTF-8
array_chunk_files(array_slices) ==
    [k \in 1..Len(array_slices) |-> encode_utf8(json_dumps(Arr(array_slices[k])))]

\* write_text_chunks: one file per part, the part encoded as UTF-8
text_chunk_files(parts) == [k \in 1..Len(parts) |-> encode_utf8(parts[k])]

\* reconstruct(blob, chunkTexts) of the loader; chunk texts are the files
\* decoded as UTF-8.  [ok, val]
RECURSIVE merge_arrays(_, _)
merge_arrays(chunkTexts, merged) ==
    IF chunkTexts = <<>> THEN [ok |-> TRUE, val |-> Arr(merged)]
    ELSE LET arr == JSON_parse(Head(chunkTexts))
         IN  IF ~arr.ok \/ arr.val.t # "arr" THEN [ok |-> FALSE, val |-> Arr(<<>>)]
             ELSE merge_arrays(Tail(chunkTexts), merged \o arr.val.v)

reconstruct(blob_strategy, chunkTexts) ==
    IF blob_strategy = "array_slices" THEN merge_arrays(chunkTexts, <<>>)
    ELSE IF blob_strategy = "text_concat"
         THEN LET r == JSON_parse(ConcatAll(chunkTexts)) IN [ok |-> r.ok, val |-> r.val]
    ELSE [ok |-> FALSE, val |-> Arr(<<>>)]

----------------------------------------------------------------------------
(* The text of the loader script that ensure_loader_runtime puts into a    *)
(* document, cut into the lexemes described with the scanner below: the    *)
(* tags, the marker, every anchor of ASSIGNMENT_START_RE, the JSON values  *)
(* that follow an anchor, the ";" after such a value, each white space     *)
(* next to one of these, and the JavaScript in between.                    *)

\* the object literal "var loader =" is given: it opens with "{" and is not
\* JSON
loader_object_text ==
    "{\n    _manifest: null,\n    _manifestIndex: null,\n    _manifestPromise: null,\n    _cache: {},\n    _blobPromises: {},\n\n    getManifestSync: function () {\n      if (!this._manifest) {\n        this._manifest = JSON.parse(getTextSync(\"./manifest.json\"));\n        this._manifestIndex = buildIndex(this._manifest);\n      }\n      return this._manifest;\n    },\n\n    getManifestAsync: function () {\n      if (this._manifest) {\n        return Promise.resolve(this._manifest);\n      }\n      if (this._manifestPromise) {\n        return this._manifestPromise;\n      }"

\* loader_script
loader_script ==
    <<
     "S", "NL", "/*", "SP", "MARK", "SP",
     "*/\n(function () {\n  if (window.__KAROSPACE_DATA_LOADER__) {\n    return;\n  }\n\n  function getTextSync(path) {",
     "NL", "SP", "SP", "SP", "SP", "var req =", "SP",
     "new XMLHttpRequest();\n    req.open(\"GET\", path, false);\n    req.send(null);\n    if (req.status < 200 || req.status >= 300) {\n      throw new Error(\"Failed to load \" + path + \" (status \" + req.status + \")\");\n    }\n    return req.responseText;\n  }\n\n  function buildIndex(manifest) {",
     "NL", "SP", "SP", "SP", "SP", "var index =", "SP", "{}", "SEMI", "NL", "SP", "SP", "SP",
     "SP", "var blobs =", "SP", "manifest.blobs || [];\n    for (", "var i =", "SP",
     "0; i < blobs.length; i += 1) {\n      index[blobs[i].key] = blobs[i];\n    }\n    return index;\n  }\n\n  function reconstruct(blob, chunkTexts) {\n    if (blob.strategy === \"array_slices\") {",
     "NL", "SP", "SP", "SP", "SP", "SP", "SP", "var merged =", "SP", "[]", "SEMI", "NL", "SP",
     "SP", "SP", "SP", "SP", "SP", "for (", "var i =", "SP",
     "0; i < chunkTexts.length; i += 1) {", "NL", "SP", "SP", "SP", "SP", "SP", "SP", "SP",
     "SP", "var arr =", "SP",
     "JSON.parse(chunkTexts[i]);\n        if (!Array.isArray(arr)) {\n          throw new Error(\"Expected array chunk for \" + blob.key);\n        }\n        merged = merged.concat(arr);\n      }\n      return merged;\n    }\n    if (blob.strategy === \"text_concat\") {\n      return JSON.parse(chunkTexts.join(\"\"));\n    }\n    throw new Error(\"Unsupported chunk strategy: \" + blob.strategy);\n  }",
     "NL", "NL", "SP", "SP", "var loader =", "SP", loader_object_text, "NL", "NL", "SP", "SP",
     "SP", "SP", "SP", "SP", "var self =", "SP",
     "this;\n      this._manifestPromise = fetch(\"./manifest.json\")\n        .then(function (response) {\n          if (!response.ok) {\n            throw new Error(\"Failed to load manifest.json (\" + response.status + \")\");\n          }\n          return response.json();\n        })\n        .then(function (manifest) {\n          self._manifest = manifest;\n          self._manifestIndex = buildIndex(manifest);\n          return manifest;\n        });\n      return this._manifestPromise;\n    },\n\n    getSync: function (key) {\n      if (Object.prototype.hasOwnProperty.call(this._cache, key)) {\n        return this._cache[key];\n      }\n\n      this.getManifestSync();",
     "NL", "SP", "SP", "SP", "SP", "SP", "SP", "var blob =", "SP",
     "this._manifestIndex[key];\n      if (!blob) {\n        throw new Error(\"Blob not found in manifest: \" + key);\n      }",
     "NL", "NL", "SP", "SP", "SP", "SP", "SP", "SP", "var chunks =", "SP", "blob.chunks || [];",
     "NL", "SP", "SP", "SP", "SP", "SP", "SP", "var texts =", "SP", "[]", "SEMI", "NL", "SP",
     "SP", "SP", "SP", "SP", "SP", "for (", "var i =", "SP",
     "0; i < chunks.length; i += 1) {\n        texts.push(getTextSync(\"./\" + chunks[i].path));\n      }",
     "NL", "NL", "SP", "SP", "SP", "SP", "SP", "SP", "var value =", "SP",
     "reconstruct(blob, texts);\n      this._cache[key] = value;", "NL", "SP", "SP", "SP", "SP",
     "SP", "SP", "window.__KAROSPACE_DATA__ =", "SP",
     "window.__KAROSPACE_DATA__ || {};\n      window.__KAROSPACE_DATA__[key] = value;\n      return value;\n    },\n\n    getAsync: function (key) {\n      if (Object.prototype.hasOwnProperty.call(this._cache, key)) {\n        return Promise.resolve(this._cache[key]);\n      }\n      if (this._blobPromises[key]) {\n        return this._blobPromises[key];\n      }",
     "NL", "NL", "SP", "SP", "SP", "SP", "SP", "SP", "var self =", "SP",
     "this;\n      this._blobPromises[key] = this.getManifestAsync().then(function () {", "NL",
     "SP", "SP", "SP", "SP", "SP", "SP", "SP", "SP", "var blob =", "SP",
     "self._manifestIndex[key];\n        if (!blob) {\n          throw new Error(\"Blob not found in manifest: \" + key);\n        }",
     "NL", "SP", "SP", "SP", "SP", "SP", "SP", "SP", "SP", "var chunks =", "SP",
     "blob.chunks || [];\n        return Promise.all(\n          chunks.map(function (chunk) {\n            return fetch(\"./\" + chunk.path).then(function (response) {\n              if (!response.ok) {\n                throw new Error(\"Failed to load \" + chunk.path + \" (\" + response.status + \")\");\n              }\n              return response.text();\n            });\n          })\n        ).then(function (chunkTexts) {",
     "NL", "SP", "SP", "SP", "SP", "SP", "SP", "SP", "SP", "SP", "SP", "var value =", "SP",
     "reconstruct(blob, chunkTexts);\n          self._cache[key] = value;", "NL", "SP", "SP",
     "SP", "SP", "SP", "SP", "SP", "SP", "SP", "SP", "window.__KAROSPACE_DATA__ =", "SP",
     "window.__KAROSPACE_DATA__ || {};\n          window.__KAROSPACE_DATA__[key] = value;\n          return value;\n        });\n      });\n      return this._blobPromises[key];\n    }\n  };",
     "NL", "NL", "SP", "SP", "window.__KAROSPACE_DATA__ =", "SP",
     "window.__KAROSPACE_DATA__ || {};", "NL", "SP", "SP", "window.__KAROSPACE_DATA_LOADER__ =",
     "SP",
     "loader;\n\n  if (typeof fetch === \"function\") {\n    loader.getManifestAsync().catch(function () {});\n  }\n})();",
     "NL", "END"
    >>

----------------------------------------------------------------------------
(* The boundary scanner.  A document is a sequence of lexemes, each a      *)
(* piece of text that SCRIPT_TAG_RE, ASSIGNMENT_START_RE and the JSON      *)
(* decoder treat as a unit:                                                *)
(*   "SJ"          <script type="application/json">                        *)
(*   "SJ_ID_A"     <script type="application/json" id="a">                 *)
(*   "SJ_ID_EMPTY" <script type="application/json" id="">                  *)
(*   "S"           <script>                                                *)
(*   "END"         </script>                                               *)
(*   "VAR"         var d=                                                  *)
(*   "WIN"         window.d=                                               *)
(*   "ARR"         [1,2]         a JSON array                              *)
(*   "OBJ"         {"a":1}       a JSON object                             *)
(*   "UNI"         {"a":"e"}     a JSON object, e standing for e-acute:    *)
(*                               9 characters, 10 bytes of UTF-8           *)
(*   "BAD"         [1,           opens a JSON array that never closes      *)
(*   "SP"          one space                                               *)
(*   "SEMI"        ;                                                       *)
(*   "TXT"         x                                                       *)
(*   "NL"          one line feed                                           *)
(*   "HEAD"        <head>                                                  *)
(*   "HTML"        <html>                                                  *)
(*   "MARK"        KAROSPACE_LOADER_RUNTIME                                *)
(* Any other lexeme is its own text, spelled out in full.  Those are the   *)
(* pieces of the texts the program writes into a document, the             *)
(* loader_script and the replacement texts:                                *)
(*   "var index =", "window.d ="   an anchor of ASSIGNMENT_START_RE up to  *)
(*                                 its "=", for the names of VariableNames *)
(*   "{}", "[]"                    the empty JSON object and array         *)
(*   <script type="application/json" id="karospace_data_000">              *)
(*                                 an open tag with a generated id         *)
(*   anything else                 JavaScript that holds no tag, no        *)
(*                                 anchor, no marker and no JSON value,    *)
(*                                 and neither starts nor ends with        *)
(*                                 whitespace                              *)
(* No lexeme closes the bracket "BAD" or loader_object_text opens, so a    *)
(* JSON value starts at a lexeme exactly when that lexeme is one of        *)
(* JsonLexemes, and ends with it.                                          *)
(* A position in a lexeme sequence is the number of lexemes before it.     *)

None == [some |-> FALSE, v |-> ""]
Some(x) == [some |-> TRUE, v |-> x]

lexeme_len(tok) ==
    CASE tok = "SJ" -> 32
      [] tok = "SJ_ID_A" -> 39
      [] tok = "SJ_ID_EMPTY" -> 38
      [] tok = "S" -> 8
      [] tok = "END" -> 9
      [] tok = "VAR" -> 6
      [] tok = "WIN" -> 9
      [] tok = "ARR" -> 5
      [] tok = "OBJ" -> 7
      [] tok = "UNI" -> 9
      [] tok = "BAD" -> 3
      [] tok \in {"SP", "SEMI", "TXT", "NL"} -> 1
      [] tok \in {"HEAD", "HTML"} -> 6
      [] tok = "MARK" -> 24
      [] OTHER -> Len(tok)

\* len(text.encode("utf-8")) of a lexeme: "UNI" holds one 2-byte code point
lexeme_bytes(tok) == IF tok = "UNI" THEN lexeme_len(tok) + 1 ELSE lexeme_len(tok)

RECURSIVE utf8_len(_)
utf8_len(toks) == IF toks = <<>> THEN 0 ELSE lexeme_bytes(Head(toks)) + utf8_len(Tail(toks))

JsonLexemes == {"ARR", "OBJ", "UNI", "{}", "[]"}

\* the number of characters of the lexemes lo..hi of toks
RECURSIVE chars_in(_, _, _)
chars_in(toks, lo, hi) ==
    IF lo > hi THEN 0
    ELSE IF lo = hi THEN lexeme_len(toks[lo])
    ELSE LET mid == (lo + hi) \div 2
         IN  chars_in(toks, lo, mid) + chars_in(toks, mid + 1, hi)

\* the character offset of position pos of toks
chars_before(toks, pos) == chars_in(toks, 1, pos)

\* the decimal digits of n
digit_char(d) ==
    CASE d = 0 -> "0" [] d = 1 -> "1" [] d = 2 -> "2" [] d = 3 -> "3" [] d = 4 -> "4"
      [] d = 5 -> "5" [] d = 6 -> "6" [] d = 7 -> "7" [] d = 8 -> "8" [] OTHER -> "9"

RECURSIVE decimal(_)
decimal(n) == IF n < 10 THEN digit_char(n) ELSE decimal(n \div 10) \o digit_char(n % 10)

\* f"{n:03d}": at least three digits
pad3(n) == IF n < 10 THEN "00" \o decimal(n)
           ELSE IF n < 100 THEN "0" \o decimal(n)
           ELSE decimal(n)

generated_script_id(generated_script_counter) ==
    "karospace_data_" \o pad3(generated_script_counter)

\* f"{attrs}": the attributes as they stand in the tag
RECURSIVE attrs_text(_)
attrs_text(attrs) ==
    IF attrs = <<>> THEN ""
    ELSE " " \o Head(attrs)[1] \o "=\"" \o Head(attrs)[2] \o "\"" \o attrs_text(Tail(attrs))

\* the attributes of a JSON script element that was given a generated id
generated_attrs(n) == << <<"type", "application/json">>, <<"id", generated_script_id(n)>> >>

\* group "attrs" of SCRIPT_TAG_RE for the named open tags, as <<name, value>>
\* pairs in text order
named_attrs(tok) ==
    CASE tok = "SJ" -> << <<"type", "application/json">> >>
      [] tok = "SJ_ID_A" -> << <<"type", "application/json">>, <<"id", "a">> >>
      [] tok = "SJ_ID_EMPTY" -> << <<"type", "application/json">>, <<"id", "">> >>
      [] OTHER -> <<>>

NamedOpenTags == {"SJ", "SJ_ID_A", "SJ_ID_EMPTY", "S"}

\* f"<script{attrs}>": the lexeme of the open tag with these attributes
open_tag(attrs) ==
    IF \E tok \in NamedOpenTags : named_attrs(tok) = attrs
    THEN CHOOSE tok \in NamedOpenTags : named_attrs(tok) = attrs
    ELSE "<script" \o attrs_text(attrs) \o ">"

\* the open tags with a generated id a document can hold
GeneratedOpenTags == {open_tag(generated_attrs(n)) : n \in 0..MaxScripts}

\* the lexemes "<script\b[^>]*>" of SCRIPT_TAG_RE matches
OpenTags == NamedOpenTags \cup GeneratedOpenTags

\* group "attrs" of SCRIPT_TAG_RE, as <<name, value>> pairs in text order
script_attrs_of(tok) ==
    IF tok \in NamedOpenTags THEN named_attrs(tok)
    ELSE generated_attrs(CHOOSE n \in 0..MaxScripts : open_tag(generated_attrs(n)) = tok)

\* extract_attr: the value of the first attribute called name, None without one
RECURSIVE extract_attr(_, _)
extract_attr(attrs, name) ==
    IF attrs = <<>> THEN None
    ELSE IF Head(attrs)[1] = name THEN Some(Head(attrs)[2])
    ELSE extract_attr(Tail(attrs), name)

\* the value a JSON lexeme decodes to
lexeme_value(tok) ==
    CASE tok = "ARR" -> Arr(<<Num(<<49>>), Num(<<50>>)>>)
      [] tok = "OBJ" -> Obj(<< <<<<97>>, Num(<<49>>)>> >>)
      [] tok = "UNI" -> Obj(<< <<<<97>>, Str(<<233>>)>> >>)
      [] tok = "{}" -> Obj(<<>>)
      [] OTHER -> Arr(<<>>)

\* re.search from position pos on: the leftmost position at or after pos
\* whose lexeme is one of toks, Len(text) without one.  The scan goes left to
\* right one lexeme at a time, and passes over a stretch of 32 lexemes in one
\* step when the stretch holds none of toks.
RECURSIVE first_at(_, _, _)
first_at(text, pos, toks) ==
    IF pos >= Len(text) THEN Len(text)
    ELSE IF text[pos + 1] \in toks THEN pos
    ELSE IF /\ pos + 32 <= Len(text)
            /\ \A k \in (pos + 1)..(pos + 31) : text[k + 1] \notin toks
         THEN first_at(text, pos + 32, toks)
         ELSE first_at(text, pos + 1, toks)

\* str.isspace(), and \s of the regular expressions
isspace(tok) == tok \in {"SP", "NL"}

RECURSIVE skip_whitespace(_, _)
skip_whitespace(text, pos) ==
    IF pos < Len(text) /\ isspace(text[pos + 1]) THEN skip_whitespace(text, pos + 1) ELSE pos

\* str.strip() of a script body
RECURSIVE strip_right(_)
strip_right(text) ==
    IF text # <<>> /\ isspace(text[Len(text)])
    THEN strip_right(SubSeq(text, 1, Len(text) - 1)) ELSE text

strip(text) == strip_right(SubSeq(text, skip_whitespace(text, 0) + 1, Len(text)))

\* json.loads(raw_body): the whole text must be one JSON value, with
\* whitespace before and after it allowed
json_loads(raw_body) ==
    LET document == strip(raw_body)
    IN  IF Len(document) = 1 /\ document[1] \in JsonLexemes
        THEN [ok |-> TRUE, value |-> lexeme_value(document[1])]
        ELSE [ok |-> FALSE, value |-> Arr(<<>>)]

\* JSON_DECODER.raw_decode(script_body[value_start:]): the value that starts
\* at value_start and the position after it; whatever follows is ignored
raw_decode(script_body, value_start) ==
    IF value_start < Len(script_body) /\ script_body[value_start + 1] \in JsonLexemes
    THEN [ok |-> TRUE, value |-> lexeme_value(script_body[value_start + 1]),
          end |-> value_start + 1]
    ELSE [ok |-> FALSE, value |-> Arr(<<>>), end |-> 0]

\* script_body[value_start] in "[{"
starts_with_bracket(tok) == tok \in JsonLexemes \cup {"BAD", loader_object_text}

\* the names the anchors of the documents assign to: d in the input, the
\* others in the loader_script and the replacement texts
VariableNames ==
    {"d", "req", "index", "blobs", "i", "merged", "arr", "loader", "self", "blob", "chunks",
     "texts", "value", "__KAROSPACE_DATA__", "__KAROSPACE_DATA_LOADER__", "__kData", "__kNode"}

\* an anchor as the program writes it, up to its "="
anchor_lexeme(lhs) == lhs \o " ="

\* f"window.{variable_name}" and f"{decl_kind} {variable_name}"
window_lhs(variable_name) == "window." \o variable_name
declaration_lhs(decl_kind, variable_name) == decl_kind \o " " \o variable_name

\* the groups window_name, decl_kind and decl_name of a match of
\* ASSIGNMENT_START_RE
AnchorGroups ==
    {[style |-> "window", decl_kind |-> None, name |-> n] : n \in VariableNames}
    \cup {[style |-> "declaration", decl_kind |-> Some("var"), name |-> n] : n \in VariableNames}

lexeme_of_groups(g) ==
    IF g.style = "window" THEN anchor_lexeme(window_lhs(g.name))
    ELSE anchor_lexeme(declaration_lhs(g.decl_kind.v, g.name))

\* the lexemes ASSIGNMENT_START_RE matches from their start on
AnchorLexemes == {"VAR", "WIN"} \cup {lexeme_of_groups(g) : g \in AnchorGroups}

anchor_groups(tok) ==
    CASE tok = "VAR" -> [style |-> "declaration", decl_kind |-> Some("var"), name |-> "d"]
      [] tok = "WIN" -> [style |-> "window", decl_kind |-> None, name |-> "d"]
      [] OTHER -> CHOOSE g \in AnchorGroups : lexeme_of_groups(g) = tok

\* ASSIGNMENT_START_RE.search(script_body, scan_pos): the leftmost anchor at
\* or after scan_pos; the match runs through the whitespace after the "="
assignment_search(script_body, scan_pos) ==
    LET start == first_at(script_body, scan_pos, AnchorLexemes)
    IN  IF start >= Len(script_body)
        THEN [found |-> FALSE, start |-> 0, end |-> 0, anchor |-> ""]
        ELSE [found |-> TRUE, start |-> start,
              end |-> skip_whitespace(script_body, start + 1),
              anchor |-> script_body[start + 1]]

\* where the scan resumes after a match that gave no candidate
\* mutant: the scan goes back to where the failed match began
resume_at_match_start(match) == match.start

\* scan_pos = match.end()
resume_after_failure(match) == match.end

\* the statement end: the value, trailing whitespace, one ";" if present
statement_end(script_body, value_end) ==
    LET stmt_end == skip_whitespace(script_body, value_end)
    IN  IF stmt_end < Len(script_body) /\ script_body[stmt_end + 1] = "SEMI"
        THEN stmt_end + 1 ELSE stmt_end

\* mutant: the spans are left relative to the script body
assignment_candidate_without_base(script_body, base_offset, match, value_start, decoded) ==
    [detector |-> "js_assignment",
     start |-> chars_before(script_body, match.start),
     end |-> chars_before(script_body, statement_end(script_body, decoded.end)),
     payload_bytes |-> utf8_len(SubSeq(script_body, value_start + 1, decoded.end)),
     raw_json |-> SubSeq(script_body, value_start + 1, decoded.end),
     value |-> decoded.value,
     script_attrs |-> <<>>,
     script_id |-> None,
     script_had_id |-> FALSE,
     assignment_style |-> Some(anchor_groups(match.anchor).style),
     decl_kind |-> anchor_groups(match.anchor).decl_kind,
     variable_name |-> Some(anchor_groups(match.anchor).name)]

assignment_candidate(script_body, base_offset, match, value_start, decoded) ==
    [detector |-> "js_assignment",
     start |-> base_offset + chars_before(script_body, match.start),
     end |-> base_offset + chars_before(script_body, statement_end(script_body, decoded.end)),
     payload_bytes |-> utf8_len(SubSeq(script_body, value_start + 1, decoded.end)),
     raw_json |-> SubSeq(script_body, value_start + 1, decoded.end),
     value |-> decoded.value,
     script_attrs |-> <<>>,
     script_id |-> None,
     script_had_id |-> FALSE,
     assignment_style |-> Some(anchor_groups(match.anchor).style),
     decl_kind |-> anchor_groups(match.anchor).decl_kind,
     variable_name |-> Some(anchor_groups(match.anchor).name)]

\* the while loop of detect_assignment_candidates
RECURSIVE assignment_loop(_, _, _, _, _)
assignment_loop(script_body, base_offset, scan_pos, consumed_until, found) ==
    LET match == assignment_search(script_body, scan_pos)
        value_start == skip_whitespace(script_body, match.end)
        decoded == raw_decode(script_body, value_start)
        stmt_end == statement_end(script_body, decoded.end)
    IN  IF ~match.found THEN found
        ELSE IF match.start < consumed_until
             THEN assignment_loop(script_body, base_offset, consumed_until,
                                  consumed_until, found)
        ELSE IF value_start >= Len(script_body)
                \/ ~starts_with_bracket(script_body[value_start + 1])
             THEN assignment_loop(script_body, base_offset, resume_after_failure(match),
                                  consumed_until, found)
        ELSE IF ~decoded.ok
             THEN assignment_loop(script_body, base_offset, resume_after_failure(match),
                                  consumed_until, found)
        ELSE assignment_loop(script_body, base_offset, stmt_end, stmt_end,
                 Append(found, assignment_candidate(script_body, base_offset, match,
                                                    value_start, decoded)))

detect_assignment_candidates(script_body, base_offset) ==
    assignment_loop(script_body, base_offset, 0, 0, <<>>)

\* SCRIPT_TAG_RE.finditer(html): the script elements from position pos on, in
\* order, each [open, close]: the positions of its open tag and of the first
\* </script> after it (the body match is lazy)
RECURSIVE script_matches(_, _)
script_matches(text, pos) ==
    LET open == first_at(text, pos, OpenTags)
        close == first_at(text, open + 1, {"END"})
    IN  IF open >= Len(text) \/ close >= Len(text) THEN <<>>
        ELSE <<[open |-> open, close |-> close]>> \o script_matches(text, close + 1)

\* if existing_id is None: generated_script_counter += 1
counter_after(generated_script_counter, existing_id) ==
    IF ~existing_id.some THEN generated_script_counter + 1 ELSE generated_script_counter

script_json_candidate(text, match, raw_body, parsed, attrs, generated_script_counter) ==
    LET existing_id == extract_attr(attrs, "id")
    IN  [detector |-> "script_json",
         start |-> chars_before(text, match.open),
         end |-> chars_before(text, match.close + 1),
         payload_bytes |-> utf8_len(raw_body),
         raw_json |-> raw_body,
         value |-> parsed,
         script_attrs |-> attrs,
         \* existing_id or f"karospace_data_{generated_script_counter:03d}"
         script_id |-> IF existing_id.some /\ existing_id.v # ""
                       THEN Some(existing_id.v)
                       ELSE Some(generated_script_id(generated_script_counter)),
         script_had_id |-> existing_id.some,
         assignment_style |-> None,
         decl_kind |-> None,
         variable_name |-> None]

\* candidates.sort(key=lambda c: c.start): a stable sort
RECURSIVE insert_by_start(_, _)
insert_by_start(sorted, c) ==
    IF sorted = <<>> THEN <<c>>
    ELSE IF sorted[Len(sorted)].start <= c.start THEN Append(sorted, c)
    ELSE Append(insert_by_start(SubSeq(sorted, 1, Len(sorted) - 1), c), sorted[Len(sorted)])

RECURSIVE sort_by_start(_, _)
sort_by_start(cs, sorted) ==
    IF cs = <<>> THEN sorted ELSE sort_by_start(Tail(cs), insert_by_start(sorted, Head(cs)))

\* the for loop of detect_candidates over the script elements
RECURSIVE detect_loop(_, _, _, _)
detect_loop(text, matches, generated_script_counter, found) ==
    IF matches = <<>> THEN found
    ELSE LET match == Head(matches)
             attrs == script_attrs_of(text[match.open + 1])
             body == SubSeq(text, match.open + 2, match.close)
             body_start == chars_before(text, match.open + 1)
             type == extract_attr(attrs, "type")
             script_type == IF type.some THEN type.v ELSE ""
             raw_body == strip(body)
             parsed == json_loads(raw_body)
         IN  IF script_type = "application/json"
             THEN IF raw_body = <<>> \/ ~parsed.ok
                  THEN detect_loop(text, Tail(matches), generated_script_counter, found)
                  ELSE detect_loop(text, Tail(matches),
                           counter_after(generated_script_counter, extract_attr(attrs, "id")),
                           Append(found, script_json_candidate(text, match, raw_body,
                                      parsed.value, attrs, generated_script_counter)))
             ELSE detect_loop(text, Tail(matches), generated_script_counter,
                      found \o detect_assignment_candidates(body, body_start))

detect_candidates(text) ==
    sort_by_start(detect_loop(text, script_matches(text, 0), 0, <<>>), <<>>)


----------------------------------------------------------------------------
(* The rewriter: replacement_for_candidate, apply_replacements and         *)
(* ensure_loader_runtime.  A replacement text is kept as the fields the    *)
(* f-strings are filled with; replacement_text gives the text, as the      *)
(* lexemes the rewritten document holds.                                   *)

\* mutant: every candidate is given the first key
blob_key_of_first(idx) == "blob_000"

\* blob_key = f"blob_{idx:03d}"
blob_key(idx) == "blob_" \o pad3(idx)

\* attrs = candidate.script_attrs or ""; if not candidate.script_had_id and
\* candidate.script_id: attrs = f"{attrs} id=\"{candidate.script_id}\""
replacement_attrs(candidate) ==
    IF ~candidate.script_had_id /\ candidate.script_id.some /\ candidate.script_id.v # ""
    THEN Append(candidate.script_attrs, <<"id", candidate.script_id.v>>)
    ELSE candidate.script_attrs

\* replacement_for_candidate: what the replacement text is made of
\*   element_attrs   the attributes of the empty script element
\*   getSync         the key passed to getSync
\*   getElementById  the id passed to document.getElementById
\*   lhs             the left-hand side of the assignment
replacement_for_candidate(candidate, key) ==
    IF candidate.detector = "script_json"
    THEN IF ~candidate.script_id.some \/ candidate.script_id.v = ""
         THEN [status |-> "ValueError", kind |-> "script_json", element_attrs |-> <<>>,
               getSync |-> key, getElementById |-> "", lhs |-> ""]
         ELSE [status |-> "ok", kind |-> "script_json",
               element_attrs |-> replacement_attrs(candidate),
               getSync |-> key,
               getElementById |-> candidate.script_id.v,
               lhs |-> ""]
    ELSE IF candidate.detector = "js_assignment"
         THEN [status |-> "ok", kind |-> "js_assignment", element_attrs |-> <<>>,
               getSync |-> key, getElementById |-> "",
               lhs |-> IF candidate.assignment_style = Some("window")
                       THEN window_lhs(candidate.variable_name.v)
                       ELSE declaration_lhs(candidate.decl_kind.v, candidate.variable_name.v)]
    ELSE [status |-> "ValueError", kind |-> candidate.detector, element_attrs |-> <<>>,
          getSync |-> key, getElementById |-> "", lhs |-> ""]

\* f"window.__KAROSPACE_DATA_LOADER__.getSync({json.dumps(blob_key)})"
getSync_call(key) == "window.__KAROSPACE_DATA_LOADER__.getSync(\"" \o key \o "\")"

\* f"document.getElementById({json.dumps(candidate.script_id)})"
getElementById_call(id) == "document.getElementById(\"" \o id \o "\")"

\* the text the f-strings of replacement_for_candidate give
replacement_text(r) ==
    IF r.kind = "script_json"
    THEN <<open_tag(r.element_attrs), "END", "NL",
           "S", "NL",
           "(function () {", "NL",
           "SP", "SP", "var __kData =", "SP", getSync_call(r.getSync), "SEMI", "NL",
           "SP", "SP", "var __kNode =", "SP", getElementById_call(r.getElementById), "SEMI", "NL",
           "SP", "SP", "if (__kNode) {", "NL",
           "SP", "SP", "SP", "SP", "__kNode.textContent = JSON.stringify(__kData);", "NL",
           "SP", "SP", "}", "NL",
           "})();", "NL",
           "END">>
    ELSE <<anchor_lexeme(r.lhs), "SP", getSync_call(r.getSync), "SEMI">>

\* Replacement(start=candidate.start, end=candidate.end, text=...)
Replacement(start, end, text) == [start |-> start, end |-> end, text |-> text]

\* the number of lexemes of text that end at or before character offset off
RECURSIVE lexemes_within(_, _, _, _)
lexemes_within(text, lo, hi, off) ==
    IF lo > hi THEN 0
    ELSE IF lo = hi THEN (IF lexeme_len(text[lo]) <= off THEN 1 ELSE 0)
    ELSE LET mid == (lo + hi) \div 2
             left == chars_in(text, lo, mid)
         IN  IF left <= off
             THEN (mid - lo + 1) + lexemes_within(text, mid + 1, hi, off - left)
             ELSE lexemes_within(text, lo, mid, off)

lexemes_before(text, off) == lexemes_within(text, 1, Len(text), off)

\* updated[:off]
text_upto(text, off) == SubSeq(text, 1, lexemes_before(text, off))

\* updated[off:]
text_from(text, off) == SubSeq(text, lexemes_before(text, off) + 1, Len(text))

\* sorted(replacements, key=lambda r: r.start, reverse=True): stable, so
\* replacements with the same start keep the order they were given in
RECURSIVE insert_by_start_reverse(_, _)
insert_by_start_reverse(sorted, r) ==
    IF sorted = <<>> THEN <<r>>
    ELSE IF sorted[Len(sorted)].start >= r.start THEN Append(sorted, r)
    ELSE Append(insert_by_start_reverse(SubSeq(sorted, 1, Len(sorted) - 1), r),
                sorted[Len(sorted)])

RECURSIVE sort_by_start_reverse(_, _)
sort_by_start_reverse(rs, sorted) ==
    IF rs = <<>> THEN sorted
    ELSE sort_by_start_reverse(Tail(rs), insert_by_start_reverse(sorted, Head(rs)))

\* mutant: the replacements are applied from the lowest start up
replacement_order_ascending(rs) == sort_by_start(rs, <<>>)

\* the order apply_replacements visits the replacements in
replacement_order(rs) == sort_by_start_reverse(rs, <<>>)

\* the for loop of apply_replacements
RECURSIVE splice_loop(_, _)
splice_loop(updated, ordered) ==
    IF ordered = <<>> THEN updated
    ELSE LET repl == Head(ordered)
         IN  splice_loop(text_upto(updated, repl.start) \o repl.text
                             \o text_from(updated, repl.end),
                         Tail(ordered))

apply_replacements(text, rs) == splice_loop(text, replacement_order(rs))

\* runtime_marker in html
marker_in(text) == \E k \in 1..Len(text) : text[k] = "MARK"

\* html[:idx] + "\n" + loader_script + "\n" + html[idx:], idx the end of
\* the tag at position pos
inject_after(text, pos) ==
    SubSeq(text, 1, pos + 1) \o <<"NL">> \o loader_script \o <<"NL">> \o SubSeq(text, pos + 2, Len(text))

\* mutant: the marker is not looked for
ensure_loader_runtime_unconditional(text) ==
    LET head_match == first_at(text, 0, {"HEAD"})
        html_match == first_at(text, 0, {"HTML"})
    IN  IF head_match < Len(text) THEN inject_after(text, head_match)
        ELSE IF html_match < Len(text) THEN inject_after(text, html_match)
        ELSE loader_script \o <<"NL">> \o text

ensure_loader_runtime(text) ==
    LET head_match == first_at(text, 0, {"HEAD"})
        html_match == first_at(text, 0, {"HTML"})
    IN  IF marker_in(text) THEN text
        ELSE IF head_match < Len(text) THEN inject_after(text, head_match)
        ELSE IF html_match < Len(text) THEN inject_after(text, html_match)
        ELSE loader_script \o <<"NL">> \o text
----------------------------------------------------------------------------
(* The planner as a machine: a value and a budget are drawn, the chunk     *)
(* writer that externalize_to_directory picks for the value writes the     *)
(* chunk files, and the loader reconstructs the value from them.           *)

\* code points: '1', 'a', e-acute (2 bytes), euro sign (3 bytes),
\* grinning face (4 bytes)
CP_ONE == 49
CP_A == 97
CP_EACUTE == 233
CP_EURO == 8364
CP_GRIN == 128512

StrCodePoints == {CP_A, CP_EACUTE, CP_EURO, CP_GRIN}

PlanStrings == {Str(s) : s \in SeqsUpTo(StrCodePoints, MaxStrLen)}

\* the elements arrays are made of: 1 to 6 bytes when serialized
PlanItems == {Num(<<CP_ONE>>), Str(<<CP_EACUTE>>), Arr(<<>>), Str(<<CP_GRIN>>)}

PlanArrays == {Arr(s) : s \in SeqsUpTo(PlanItems, MaxItems)}

PlanScalars == PlanStrings \cup {Num(<<CP_ONE>>), Obj(<<>>), Obj(<< <<<<CP_A>>, Str(<<CP_EURO>>)>> >>)}

SpliceIdle == spliced = <<>> /\ splice_pc = "idle"

InjectIdle == index_html_again = <<>> /\ inject_pc = "idle"

AssignIdle ==
    /\ assign_body = <<>>
    /\ assign_scan_pos = 0
    /\ assign_consumed_until = 0
    /\ iterations = 0
    /\ assign_pc = "idle"

NoCall == [method |-> "", key |-> "", outcome |-> "", value |-> <<>>]

LoaderIdle ==
    /\ served = [manifest |-> <<>>, files |-> <<>>]
    /\ has_fetch = FALSE
    /\ loader_pc = "idle"
    /\ _manifest = [loaded |-> FALSE, blobs |-> <<>>]
    /\ _manifestPromise = "null"
    /\ _cache = <<>>
    /\ __KAROSPACE_DATA__ = <<>>
    /\ _blobPromises = <<>>
    /\ chunk_waits = <<>>
    /\ reading = {}
    /\ requests = <<>>
    /\ responses = <<>>
    /\ calls = 0
    /\ last_call = NoCall
    /\ completed = {}

AuxIdle ==
    /\ SpliceIdle
    /\ InjectIdle
    /\ AssignIdle
    /\ LoaderIdle

\* run() not started, leaving aside the document and its replacements
RunStateIdle ==
    /\ args = [slug |-> <<>>, mode |-> "auto", threshold_half_bytes |-> 0,
               chunk_half_bytes |-> 0, input |-> "file", same_file |-> FALSE]
    /\ run_pc = "idle"
    /\ error = ""
    /\ failed_at = ""
    /\ path_taken = "none"
    /\ fs_log = <<>>
    /\ chunk_counter = 0
    /\ blob_idx = 0
    /\ pending = <<>>
    /\ chunk_entries = <<>>
    /\ manifest_blobs = <<>>

RunIdle ==
    /\ RunStateIdle
    /\ replacements = <<>>
    /\ index_html = <<>>

PlanInit ==
    /\ value \in PlanArrays \cup PlanScalars
    /\ chunk_target_bytes \in 1..MaxBudget
    /\ strategy = "none"
    /\ fragments = <<>>
    /\ files = <<>>
    /\ plan_status = "ok"
    /\ reconstructed = [ok |-> FALSE, val |-> Arr(<<>>)]
    /\ plan_pc = "start"
    /\ html = <<>>
    /\ candidates = <<>>
    /\ scan_pc = "idle"
    /\ RunIdle
    /\ AuxIdle

\* externalize_to_directory, isinstance(candidate.value, list) branch
WriteArrayChunks ==
    /\ plan_pc = "start"
    /\ value.t = "arr"
    /\ LET r == split_array_for_target_bytes(value.v, chunk_target_bytes)
       IN  /\ plan_status' = r.status
           /\ fragments' = r.chunks
           /\ files' = array_chunk_files(r.chunks)
           /\ plan_pc' = IF r.status = "ok" THEN "written" ELSE "failed"
    /\ strategy' = "array_slices"
    /\ UNCHANGED <<value, chunk_target_bytes, reconstructed>>

\* externalize_to_directory, else branch
WriteTextChunks ==
    /\ plan_pc = "start"
    /\ value.t # "arr"
    /\ LET r == split_utf8_text_by_bytes(json_dumps(value), chunk_target_bytes)
       IN  /\ plan_status' = r.status
           /\ fragments' = r.chunks
           /\ files' = text_chunk_files(r.chunks)
           /\ plan_pc' = IF r.status = "ok" THEN "written" ELSE "failed"
    /\ strategy' = "text_concat"
    /\ UNCHANGED <<value, chunk_target_bytes, reconstructed>>

\* loader.getSync: fetch every chunk as text and reconstruct
LoaderReconstruct ==
    /\ plan_pc = "written"
    /\ LET texts == [k \in 1..Len(files) |-> decode_utf8(files[k]).text]
       IN  reconstructed' = reconstruct(strategy, texts)
    /\ plan_pc' = "loaded"
    /\ UNCHANGED <<value, chunk_target_bytes, strategy, fragments, files, plan_status>>

PlanNext ==
    /\ WriteArrayChunks \/ WriteTextChunks \/ LoaderReconstruct
    /\ UNCHANGED <<scanVars, runVars, auxVars>>

SpecPlan == PlanInit /\ [][PlanNext]_vars

----------------------------------------------------------------------------
(* The scanner as a machine: a document is drawn, detect_candidates runs.  *)

\* the pieces documents are made of: script elements of both shapes, with
\* and without ids, with bodies that decode and bodies that do not, an open
\* tag that nothing closes, and plain text
DocPieces ==
    { <<"SJ", "ARR", "END">>,
      <<"SJ", "NL", "OBJ", "SP", "END">>,
      <<"SJ_ID_A", "ARR", "END">>,
      <<"SJ_ID_EMPTY", "OBJ", "END">>,
      <<"SJ", "BAD", "END">>,
      <<"SJ_ID_A", "NL", "END">>,
      <<"S", "VAR", "UNI", "SEMI", "END">>,
      <<"S", "VAR", "SP", "ARR", "NL", "SEMI", "WIN", "OBJ", "END">>,
      <<"S", "VAR", "BAD", "WIN", "ARR", "TXT", "END">>,
      <<"S", "WIN", "TXT", "SEMI", "VAR", "END">>,
      <<"S">>,
      <<"TXT">> }

\* documents that hold the loader script: the output of an earlier run
LoaderDocs ==
    { loader_script \o <<"NL">>,
      <<"TXT">> \o loader_script \o <<"SJ", "ARR", "END">>,
      <<"HTML", "HEAD", "NL">> \o loader_script
          \o <<"NL", "S", "NL", "VAR", "NL", "OBJ", "NL", "SEMI", "END">> }

count_of(text, tok) == Cardinality({k \in 1..Len(text) : text[k] = tok})

\* documents of up to MaxScripts pieces in which the explicit id "a" is
\* used by at most one element
ScanDocs ==
    {d \in {ConcatAll(ps) : ps \in SeqsUpTo(DocPieces, MaxScripts)} :
        count_of(d, "SJ_ID_A") <= 1}
    \cup LoaderDocs

PlanIdle ==
    /\ value = Arr(<<>>)
    /\ chunk_target_bytes = 1
    /\ strategy = "none"
    /\ fragments = <<>>
    /\ files = <<>>
    /\ plan_status = "ok"
    /\ reconstructed = [ok |-> FALSE, val |-> Arr(<<>>)]
    /\ plan_pc = "idle"

ScanInit ==
    /\ html \in ScanDocs
    /\ candidates = <<>>
    /\ scan_pc = "start"
    /\ PlanIdle
    /\ RunIdle
    /\ AuxIdle

DetectCandidates ==
    /\ scan_pc = "start"
    /\ candidates' = detect_candidates(html)
    /\ scan_pc' = "scanned"
    /\ UNCHANGED html

ScanNext ==
    /\ DetectCandidates
    /\ UNCHANGED <<planVars, runVars, auxVars>>

SpecScan == ScanInit /\ [][ScanNext]_vars

----------------------------------------------------------------------------
(* The mode orchestrator: one run() of the command.  Sizes given in MB on  *)
(* the command line are kept as the product args.x_mb * 1024 * 1024 in     *)
(* half bytes, so that a product that is no whole number of bytes exists.  *)
(* Every statement of run() that touches the filesystem is a step, and     *)
(* each may fail with OSError; a copy or a write may fail with its file    *)
(* created and not completed.  Paths are relative to outdir, with <slug>   *)
(* standing for the slug and ".." for the directories above outdir.        *)

\* re.fullmatch(r"[A-Za-z0-9._-]+", slug)
slug_char_ok(c) ==
    \/ (c >= 65 /\ c <= 90) \/ (c >= 97 /\ c <= 122) \/ (c >= 48 /\ c <= 57)
    \/ c \in {46, 95, 45}

validate_slug(slug) == slug # <<>> /\ \A k \in 1..Len(slug) : slug_char_ok(slug[k])

\* int(x) of a float given in half units: truncation toward zero
int_of_halves(h) == IF h >= 0 THEN h \div 2 ELSE -((-h) \div 2)

RECURSIVE sum_payload_bytes(_)
sum_payload_bytes(cs) ==
    IF cs = <<>> THEN 0 ELSE Head(cs).payload_bytes + sum_payload_bytes(Tail(cs))

\* mutant: the threshold itself already selects the directory path
auto_keeps_single_below_threshold(mode, total_payload_bytes, threshold_bytes) ==
    mode = "auto" /\ total_payload_bytes < threshold_bytes

\* args.mode == "auto" and total_payload_bytes <= threshold_bytes
auto_keeps_single(mode, total_payload_bytes, threshold_bytes) ==
    mode = "auto" /\ total_payload_bytes <= threshold_bytes

BACKUP_DIR == "_backups"
BACKUP_PATH == "_backups/<slug>.original.html"
SINGLE_PATH == "<slug>.html"
VIEWER_DIR == "<slug>"
DATA_DIR == "<slug>/data"
MANIFEST_PATH == "<slug>/manifest.json"
INDEX_PATH == "<slug>/index.html"

Effect(op, path) == [op |-> op, path |-> path]

\* mutant: the backup copy is left out
make_backup_copy_skipped(log) == log

\* make_backup_copy: backup_dir.mkdir, shutil.copy2
make_backup_copy(log) ==
    log \o <<Effect("mkdir", BACKUP_DIR), Effect("copy", BACKUP_PATH)>>

\* f"data/chunk_{chunk_counter:03d}.json" / ".txt"
chunk_filename(counter, strat) ==
    "data/chunk_" \o pad3(counter) \o (IF strat = "array_slices" THEN ".json" ELSE ".txt")

\* the chunk writer externalize_to_directory picks for a candidate: the
\* splitter's status, the strategy and the contents of the files to write
plan_chunks(candidate, target_bytes) ==
    IF candidate.value.t = "arr"
    THEN LET r == split_array_for_target_bytes(candidate.value.v, target_bytes)
         IN  [status |-> r.status, strategy |-> "array_slices",
              files |-> array_chunk_files(r.chunks)]
    ELSE LET r == split_utf8_text_by_bytes(json_dumps(candidate.value), target_bytes)
         IN  [status |-> r.status, strategy |-> "text_concat",
              files |-> text_chunk_files(r.chunks)]

\* mutant: the manifest is written once the first candidate is done
all_candidates_done_after_first(idx, cs) == idx >= 1

\* the for loop over the candidates has ended
all_candidates_done(idx, cs) == idx >= Len(cs)

RunSlugs == {<<82, 82, 77, 97, 112>>, <<97, 47, 98>>}

RunDocs ==
    { <<"TXT">>,
      <<"SJ", "ARR", "END">>,
      <<"S", "VAR", "OBJ", "SEMI", "END">>,
      <<"SJ_ID_EMPTY", "OBJ", "END", "S", "WIN", "ARR", "END">>,
      <<"S", "WIN", "ARR", "SEMI", "VAR", "UNI", "END">>,
      <<"HTML", "HEAD", "SJ", "ARR", "END", "S", "VAR", "OBJ", "SEMI", "END">>,
      <<"HTML", "SJ_ID_A", "ARR", "END", "TXT">>,
      <<"S", "WIN", "ARR", "SEMI", "END", "HEAD", "TXT">>,
      <<"MARK", "HEAD", "SJ", "ARR", "END">>,
      \* one element per line
      <<"HTML", "NL", "HEAD", "NL", "SJ", "NL", "ARR", "NL", "END", "NL",
        "S", "NL", "VAR", "NL", "OBJ", "NL", "SEMI", "NL", "END", "NL">>,
      \* the index.html of an earlier run, with new data
      <<"HTML", "HEAD", "NL">> \o loader_script \o <<"NL", "SJ", "ARR", "END">> }

RunArgs ==
    {a \in [slug : RunSlugs,
            mode : {"auto", "single", "directory"},
            threshold_half_bytes : (-2)..(2 * MaxThresholdBytes + 1),
            chunk_half_bytes : (-1)..(2 * MaxChunkBytes + 1),
            input : {"file", "missing", "directory", "not_utf8"},
            same_file : BOOLEAN] :
        a.same_file => a.input = "file"}

RunInit ==
    /\ args \in RunArgs
    /\ html \in RunDocs
    /\ candidates = <<>>
    /\ scan_pc = "idle"
    /\ run_pc = "validate_slug"
    /\ error = ""
    /\ failed_at = ""
    /\ path_taken = "none"
    /\ fs_log = <<>>
    /\ chunk_counter = 0
    /\ blob_idx = 0
    /\ pending = <<>>
    /\ chunk_entries = <<>>
    /\ manifest_blobs = <<>>
    /\ replacements = <<>>
    /\ index_html = <<>>
    /\ PlanIdle
    /\ AuxIdle

Raise(exc) ==
    /\ run_pc' = "failed"
    /\ error' = exc
    /\ failed_at' = run_pc

NoRaise == UNCHANGED <<error, failed_at>>

\* validate_slug(args.slug)
ValidateSlug ==
    /\ run_pc = "validate_slug"
    /\ IF validate_slug(args.slug)
       THEN run_pc' = "check_input" /\ NoRaise
       ELSE Raise("ValueError")
    /\ UNCHANGED <<args, path_taken, fs_log, chunk_counter, blob_idx, pending,
                   chunk_entries, manifest_blobs, html, candidates, replacements, index_html>>

\* input_path = Path(args.input).expanduser().resolve();
\* input_path.exists() / input_path.is_file()
CheckInput ==
    /\ run_pc = "check_input"
    /\ \/ IF args.input = "missing" THEN Raise("FileNotFoundError")
          ELSE IF args.input = "directory" THEN Raise("ValueError")
          ELSE run_pc' = "mkdir_outdir" /\ NoRaise
       \/ \* expanduser finds no home directory, resolve meets a symlink loop
          Raise("RuntimeError")
       \/ \* resolve or exists is refused by the system
          Raise("OSError")
    /\ UNCHANGED <<args, path_taken, fs_log, chunk_counter, blob_idx, pending,
                   chunk_entries, manifest_blobs, html, candidates, replacements, index_html>>

\* outdir = Path(args.outdir).expanduser().resolve();
\* outdir.mkdir(parents=True, exist_ok=True)
MkdirOutdir ==
    /\ run_pc = "mkdir_outdir"
    /\ \/ /\ fs_log' = Append(fs_log, Effect("mkdir", "."))
          /\ run_pc' = "read_input"
          /\ NoRaise
       \/ \* expanduser or resolve fails
          \E exc \in {"RuntimeError", "OSError"} : Raise(exc) /\ UNCHANGED fs_log
       \/ \* mkdir fails with nothing created
          Raise("OSError") /\ UNCHANGED fs_log
       \/ \* mkdir fails with directories above outdir created
          Raise("OSError") /\ fs_log' = Append(fs_log, Effect("mkdir", ".."))
    /\ UNCHANGED <<args, path_taken, chunk_counter, blob_idx, pending,
                   chunk_entries, manifest_blobs, html, candidates, replacements, index_html>>

\* html = input_path.read_text(encoding="utf-8")
ReadInput ==
    /\ run_pc = "read_input"
    /\ \/ IF args.input = "not_utf8" THEN Raise("UnicodeDecodeError")
          ELSE run_pc' = "backup" /\ NoRaise
       \/ Raise("OSError")
    /\ UNCHANGED <<args, path_taken, fs_log, chunk_counter, blob_idx, pending,
                   chunk_entries, manifest_blobs, html, candidates, replacements, index_html>>

\* backup_path = make_backup_copy(input_path, outdir, args.slug)
MakeBackupCopy ==
    /\ run_pc = "backup"
    /\ \/ /\ fs_log' = make_backup_copy(fs_log)
          /\ run_pc' = "mode"
          /\ NoRaise
       \/ \* backup_dir.mkdir fails
          Raise("OSError") /\ UNCHANGED fs_log
       \/ \* shutil.copy2 fails before the backup file is created
          Raise("OSError") /\ fs_log' = Append(fs_log, Effect("mkdir", BACKUP_DIR))
       \/ \* shutil.copy2 fails with the backup file created: its content not
          \* completed, or its metadata not copied
          /\ Raise("OSError")
          /\ fs_log' = fs_log \o <<Effect("mkdir", BACKUP_DIR),
                                   Effect("copy_partial", BACKUP_PATH)>>
    /\ UNCHANGED <<args, path_taken, chunk_counter, blob_idx, pending,
                   chunk_entries, manifest_blobs, html, candidates, replacements, index_html>>

\* copy_single(input_path, outdir, args.slug), from either call site:
\* outdir.mkdir, the same-file test, shutil.copy2
copy_single ==
    /\ path_taken' = "single"
    /\ \/ \* outdir.mkdir fails
          Raise("OSError") /\ UNCHANGED fs_log
       \/ \* resolve fails in the same-file test
          /\ fs_log' = Append(fs_log, Effect("mkdir", "."))
          /\ \E exc \in {"RuntimeError", "OSError"} : Raise(exc)
       \/ \* the same file, or shutil.copy2 fails before the file is created
          /\ fs_log' = Append(fs_log, Effect("mkdir", "."))
          /\ Raise(IF args.same_file THEN "ValueError" ELSE "OSError")
       \/ \* shutil.copy2 fails with the file created: its content not
          \* completed, or its metadata not copied
          /\ ~args.same_file
          /\ fs_log' = fs_log \o <<Effect("mkdir", "."),
                                   Effect("copy_partial", SINGLE_PATH)>>
          /\ Raise("OSError")
       \/ /\ ~args.same_file
          /\ fs_log' = fs_log \o <<Effect("mkdir", "."), Effect("copy", SINGLE_PATH)>>
          /\ run_pc' = "done"
          /\ NoRaise

\* if args.mode == "single": copy_single(...); return 0
CopySingleForced ==
    /\ run_pc = "mode"
    /\ args.mode = "single"
    /\ copy_single
    /\ UNCHANGED <<args, chunk_counter, blob_idx, pending, chunk_entries,
                   manifest_blobs, html, candidates, replacements, index_html>>

\* candidates = detect_candidates(html); if not candidates: raise RuntimeError
DetectInRun ==
    /\ run_pc = "mode"
    /\ args.mode # "single"
    /\ candidates' = detect_candidates(html)
    /\ IF candidates' = <<>> THEN Raise("RuntimeError")
       ELSE run_pc' = "decide" /\ NoRaise
    /\ UNCHANGED <<args, path_taken, fs_log, chunk_counter, blob_idx, pending,
                   chunk_entries, manifest_blobs, html, replacements, index_html>>

total_payload_bytes == sum_payload_bytes(candidates)

threshold_bytes == int_of_halves(args.threshold_half_bytes)

\* if args.mode == "auto" and total_payload_bytes <= threshold_bytes:
\*     copy_single(...); return 0
CopySingleAuto ==
    /\ run_pc = "decide"
    /\ auto_keeps_single(args.mode, total_payload_bytes, threshold_bytes)
    /\ copy_single
    /\ UNCHANGED <<args, chunk_counter, blob_idx, pending, chunk_entries,
                   manifest_blobs, html, candidates, replacements, index_html>>

\* externalize_to_directory up to the for loop: the candidates and chunk
\* size checks, viewer_dir.mkdir, data_dir.mkdir
ExternalizeStart ==
    /\ run_pc = "decide"
    /\ ~auto_keeps_single(args.mode, total_payload_bytes, threshold_bytes)
    /\ path_taken' = "directory"
    /\ IF candidates = <<>> THEN Raise("RuntimeError") /\ UNCHANGED fs_log
       ELSE IF int_of_halves(args.chunk_half_bytes) <= 0
            THEN Raise("ValueError") /\ UNCHANGED fs_log
       ELSE \/ /\ fs_log' = fs_log \o <<Effect("mkdir", VIEWER_DIR), Effect("mkdir", DATA_DIR)>>
               /\ run_pc' = "candidate"
               /\ NoRaise
            \/ Raise("OSError") /\ UNCHANGED fs_log
            \/ Raise("OSError") /\ fs_log' = Append(fs_log, Effect("mkdir", VIEWER_DIR))
    /\ UNCHANGED <<args, chunk_counter, blob_idx, pending, chunk_entries,
                   manifest_blobs, html, candidates, replacements, index_html>>

\* the head of write_array_chunks / write_text_chunks for the next
\* candidate: the value is split before any of its files is written
StartCandidate ==
    /\ run_pc = "candidate"
    /\ ~all_candidates_done(blob_idx, candidates)
    /\ LET plan == plan_chunks(candidates[blob_idx + 1], int_of_halves(args.chunk_half_bytes))
       IN  IF plan.status = "ok"
           THEN /\ pending' = plan.files
                /\ run_pc' = "chunk"
                /\ NoRaise
           ELSE Raise(plan.status) /\ UNCHANGED pending
    /\ chunk_entries' = <<>>
    /\ UNCHANGED <<args, path_taken, fs_log, chunk_counter, blob_idx,
                   manifest_blobs, html, candidates, replacements, index_html>>

current_strategy == IF candidates[blob_idx + 1].value.t = "arr" THEN "array_slices"
                    ELSE "text_concat"

\* mutant: the counter is handed on as it came
chunk_counter_not_advanced(counter) == counter

\* chunk_counter += 1
chunk_counter_after_write(counter) == counter + 1

\* one pass of the writer's for loop: chunk_path.write_text, entries.append,
\* chunk_counter += 1; after the last file, manifest["blobs"].append and
\* replacements.append of externalize_to_directory
WriteChunk ==
    /\ run_pc = "chunk"
    /\ LET path == chunk_filename(chunk_counter, current_strategy)
           entry == [path |-> path, bytes |-> Len(Head(pending))]
           candidate == candidates[blob_idx + 1]
           text == replacement_for_candidate(candidate, blob_key(blob_idx))
       IN  \/ /\ fs_log' = Append(fs_log, Effect("write", "<slug>/" \o path))
              /\ chunk_counter' = chunk_counter_after_write(chunk_counter)
              /\ pending' = Tail(pending)
              /\ IF Len(pending) = 1
                 THEN /\ manifest_blobs' = Append(manifest_blobs,
                             [key |-> blob_key(blob_idx),
                              strategy |-> current_strategy,
                              chunks |-> Append(chunk_entries, entry)])
                      /\ chunk_entries' = <<>>
                      /\ blob_idx' = blob_idx + 1
                      /\ IF text.status = "ok"
                         THEN /\ replacements' = Append(replacements,
                                     Replacement(candidate.start, candidate.end, text))
                              /\ run_pc' = "candidate"
                              /\ NoRaise
                         ELSE Raise(text.status) /\ UNCHANGED replacements
                 ELSE /\ chunk_entries' = Append(chunk_entries, entry)
                      /\ NoRaise
                      /\ UNCHANGED <<manifest_blobs, blob_idx, run_pc, replacements>>
           \/ \* write_text fails before the file is created
              /\ Raise("OSError")
              /\ UNCHANGED <<fs_log, chunk_counter, pending, chunk_entries,
                             manifest_blobs, blob_idx, replacements>>
           \/ \* write_text fails with the file created and not completed
              /\ Raise("OSError")
              /\ fs_log' = Append(fs_log, Effect("write_partial", "<slug>/" \o path))
              /\ UNCHANGED <<chunk_counter, pending, chunk_entries, manifest_blobs,
                             blob_idx, replacements>>
    /\ UNCHANGED <<args, path_taken, html, candidates, index_html>>

\* Replacement.text as the text spliced into the document
spelled_out(rs) ==
    [k \in 1..Len(rs) |->
        Replacement(rs[k].start, rs[k].end, replacement_text(rs[k].text))]

\* apply_replacements, ensure_loader_runtime, manifest_path.write_text
WriteManifest ==
    /\ run_pc = "candidate"
    /\ all_candidates_done(blob_idx, candidates)
    /\ index_html' = ensure_loader_runtime(apply_replacements(html, spelled_out(replacements)))
    /\ \/ /\ fs_log' = Append(fs_log, Effect("write", MANIFEST_PATH))
          /\ run_pc' = "index"
          /\ NoRaise
       \/ Raise("OSError") /\ UNCHANGED fs_log
       \/ Raise("OSError") /\ fs_log' = Append(fs_log, Effect("write_partial", MANIFEST_PATH))
    /\ UNCHANGED <<args, path_taken, chunk_counter, blob_idx, pending, chunk_entries,
                   manifest_blobs, html, candidates, replacements>>

\* index_path.write_text
WriteIndex ==
    /\ run_pc = "index"
    /\ \/ /\ fs_log' = Append(fs_log, Effect("write", INDEX_PATH))
          /\ run_pc' = "done"
          /\ NoRaise
       \/ Raise("OSError") /\ UNCHANGED fs_log
       \/ Raise("OSError") /\ fs_log' = Append(fs_log, Effect("write_partial", INDEX_PATH))
    /\ UNCHANGED <<args, path_taken, chunk_counter, blob_idx, pending, chunk_entries,
                   manifest_blobs, html, candidates, replacements, index_html>>

RunNext ==
    /\ \/ ValidateSlug
       \/ CheckInput
       \/ MkdirOutdir
       \/ ReadInput
       \/ MakeBackupCopy
       \/ CopySingleForced
       \/ DetectInRun
       \/ CopySingleAuto
       \/ ExternalizeStart
       \/ StartCandidate
       \/ WriteChunk
       \/ WriteManifest
       \/ WriteIndex
    /\ UNCHANGED <<planVars, scan_pc, auxVars>>

SpecRun == RunInit /\ [][RunNext]_vars


----------------------------------------------------------------------------
(* apply_replacements on its own: a text of one-character lexemes, and a   *)
(* list of at most two replacements over it, in any order, whose spans do  *)
(* not overlap.                                                            *)

SpliceTexts == SeqsUpTo({"TXT", "SEMI"}, MaxTextLen)

SpliceReplacements(text) ==
    {Replacement(s, e, t) : s \in 0..Len(text), e \in 0..Len(text),
                            t \in {<<>>, <<"NL">>, <<"NL", "SP">>}}

\* [a.start, a.end) and [b.start, b.end) share no position
non_overlapping(a, b) == a.end <= b.start \/ b.end <= a.start

SpliceInputs(text) ==
    {rs \in SeqsUpTo(SpliceReplacements(text), 2) :
        /\ \A k \in 1..Len(rs) : rs[k].start <= rs[k].end
        /\ \A i, j \in 1..Len(rs) : i # j => non_overlapping(rs[i], rs[j])}

SpliceInit ==
    /\ html \in SpliceTexts
    /\ replacements \in SpliceInputs(html)
    /\ spliced = <<>>
    /\ splice_pc = "start"
    /\ index_html = <<>>
    /\ InjectIdle
    /\ AssignIdle
    /\ LoaderIdle
    /\ candidates = <<>>
    /\ scan_pc = "idle"
    /\ PlanIdle
    /\ RunStateIdle

ApplyReplacements ==
    /\ splice_pc = "start"
    /\ spliced' = apply_replacements(html, replacements)
    /\ splice_pc' = "applied"
    /\ UNCHANGED <<html, replacements>>

SpliceNext ==
    /\ ApplyReplacements
    /\ UNCHANGED <<planVars, candidates, scan_pc, args, run_pc, error, failed_at,
                   path_taken, fs_log, chunk_counter, blob_idx, pending, chunk_entries,
                   manifest_blobs, index_html, injectVars, assignVars,
                   loaderVars>>

SpecSplice == SpliceInit /\ [][SpliceNext]_vars

----------------------------------------------------------------------------
(* ensure_loader_runtime on its own: a document of tags, marker text and   *)
(* plain text goes through it, and the result goes through it again.       *)

InjectDocs == SeqsUpTo({"HEAD", "HTML", "MARK", "TXT"}, MaxTags)

InjectInit ==
    /\ html \in InjectDocs
    /\ index_html = <<>>
    /\ index_html_again = <<>>
    /\ inject_pc = "start"
    /\ replacements = <<>>
    /\ SpliceIdle
    /\ AssignIdle
    /\ LoaderIdle
    /\ candidates = <<>>
    /\ scan_pc = "idle"
    /\ PlanIdle
    /\ RunStateIdle

EnsureLoaderRuntime ==
    /\ inject_pc = "start"
    /\ index_html' = ensure_loader_runtime(html)
    /\ inject_pc' = "once"
    /\ UNCHANGED <<html, index_html_again>>

EnsureLoaderRuntimeAgain ==
    /\ inject_pc = "once"
    /\ index_html_again' = ensure_loader_runtime(index_html)
    /\ inject_pc' = "twice"
    /\ UNCHANGED <<html, index_html>>

InjectNext ==
    /\ \/ EnsureLoaderRuntime
       \/ EnsureLoaderRuntimeAgain
    /\ UNCHANGED <<planVars, candidates, scan_pc, args, run_pc, error, failed_at,
                   path_taken, fs_log, chunk_counter, blob_idx, pending, chunk_entries,
                   manifest_blobs, replacements, spliceVars, assignVars,
                   loaderVars>>

SpecInject == InjectInit /\ [][InjectNext]_vars

----------------------------------------------------------------------------
(* detect_assignment_candidates as a machine: each pass of its while loop  *)
(* is a step, and the break with the return is the last one.  The list     *)
(* the function builds is kept in candidates.                              *)

\* every body shorter than MaxBodyLen, and the bodies of MaxBodyLen lexemes
\* made of anchors, values and line breaks
AssignBodies ==
    SeqsUpTo({"VAR", "WIN", "ARR", "BAD", "SP", "NL", "SEMI", "TXT"}, MaxBodyLen - 1)
        \cup [1..MaxBodyLen -> {"VAR", "WIN", "ARR", "BAD", "NL"}]

\* a script body has at most one anchor per lexeme: more passes than that
\* are not followed
MaxIterations(body) == Len(body) + 1

AssignInit ==
    /\ assign_body \in AssignBodies
    /\ assign_scan_pos = 0
    /\ assign_consumed_until = 0
    /\ iterations = 0
    /\ assign_pc = "loop"
    /\ candidates = <<>>
    /\ html = <<>>
    /\ scan_pc = "idle"
    /\ PlanIdle
    /\ RunIdle
    /\ SpliceIdle
    /\ InjectIdle
    /\ LoaderIdle

\* match = ASSIGNMENT_START_RE.search(assign_body, assign_scan_pos)
current_match == assignment_search(assign_body, assign_scan_pos)

\* the pass gives no candidate: no "[" or "{" after the anchor, or a value
\* that does not decode
match_fails(match) ==
    LET value_start == skip_whitespace(assign_body, match.end)
    IN  \/ value_start >= Len(assign_body)
        \/ ~starts_with_bracket(assign_body[value_start + 1])
        \/ ~raw_decode(assign_body, value_start).ok

\* one pass of the while loop that found a match
AssignIteration ==
    /\ assign_pc = "loop"
    /\ current_match.found
    /\ iterations < MaxIterations(assign_body)
    /\ iterations' = iterations + 1
    /\ LET match == current_match
           value_start == skip_whitespace(assign_body, match.end)
           decoded == raw_decode(assign_body, value_start)
           stmt_end == statement_end(assign_body, decoded.end)
       IN  IF match.start < assign_consumed_until
           THEN /\ assign_scan_pos' = assign_consumed_until
                /\ UNCHANGED <<assign_consumed_until, candidates>>
           ELSE IF match_fails(match)
                THEN /\ assign_scan_pos' = resume_after_failure(match)
                     /\ UNCHANGED <<assign_consumed_until, candidates>>
           ELSE /\ candidates' = Append(candidates,
                        assignment_candidate(assign_body, 0, match, value_start, decoded))
                /\ assign_consumed_until' = stmt_end
                /\ assign_scan_pos' = stmt_end
    /\ UNCHANGED <<assign_body, assign_pc>>

\* if not match: break; return candidates
AssignReturn ==
    /\ assign_pc = "loop"
    /\ ~current_match.found
    /\ assign_pc' = "returned"
    /\ UNCHANGED <<assign_body, assign_scan_pos, assign_consumed_until, iterations, candidates>>

AssignNext ==
    /\ \/ AssignIteration
       \/ AssignReturn
    /\ UNCHANGED <<planVars, html, scan_pc, runVars, spliceVars, injectVars, loaderVars>>

SpecAssign == AssignInit /\ [][AssignNext]_vars /\ WF_vars(AssignNext)

----------------------------------------------------------------------------
(* The loader runtime of ensure_loader_runtime's loader_script, in a page  *)
(* made by one directory run.  The page's scripts call the loader's four   *)
(* methods in any order and with any key; a synchronous call runs to its   *)
(* end in one step, a promise callback is a step of its own, a response's  *)
(* body is read between the callback that receives the response and the    *)
(* one that gets the body, and every request gets a status of the server's *)
(* choosing.                                                               *)

\* the run that made the page: its document and its chunk size
ServedDoc == <<"HTML", "HEAD", "SJ", "ARR", "END", "S", "VAR", "OBJ", "SEMI", "END">>

ServedChunkBytes == 3

\* the for loop of externalize_to_directory as one value: per candidate the
\* manifest entry (key, strategy, chunks) and the files behind its chunks
RECURSIVE externalized(_, _, _, _)
externalized(cs, idx, counter, target_bytes) ==
    IF cs = <<>> THEN <<>>
    ELSE LET plan == plan_chunks(Head(cs), target_bytes)
         IN  <<[key |-> blob_key(idx),
                strategy |-> plan.strategy,
                chunks |-> [k \in 1..Len(plan.files) |->
                               [path |-> chunk_filename(counter + k - 1, plan.strategy),
                                bytes |-> Len(plan.files[k])]],
                files |-> plan.files]>>
             \o externalized(Tail(cs), idx + 1, counter + Len(plan.files), target_bytes)

ExternalizedBlobs == externalized(detect_candidates(ServedDoc), 0, 0, ServedChunkBytes)

\* the file the run wrote at a chunk path
file_at(path) ==
    LET b == CHOOSE b \in 1..Len(ExternalizedBlobs) :
                 \E c \in 1..Len(ExternalizedBlobs[b].chunks) :
                     ExternalizedBlobs[b].chunks[c].path = path
        c == CHOOSE c \in 1..Len(ExternalizedBlobs[b].chunks) :
                 ExternalizedBlobs[b].chunks[c].path = path
    IN  ExternalizedBlobs[b].files[c]

\* manifest["blobs"] as the run's manifest.json holds it: window.d = [1,2]
\* in two array chunks, var d = {"a":1} in three pieces of text
ServedManifest ==
    << [key |-> "blob_000", strategy |-> "array_slices",
        chunks |-> << [path |-> "data/chunk_000.json", bytes |-> 3],
                      [path |-> "data/chunk_001.json", bytes |-> 3] >>],
       [key |-> "blob_001", strategy |-> "text_concat",
        chunks |-> << [path |-> "data/chunk_002.txt", bytes |-> 3],
                      [path |-> "data/chunk_003.txt", bytes |-> 3],
                      [path |-> "data/chunk_004.txt", bytes |-> 1] >>] >>

\* the run's chunk files, by path: [1] [2] {"a ":1 }
ServedFiles ==
    ("data/chunk_000.json" :> <<91, 49, 93>>) @@ ("data/chunk_001.json" :> <<91, 50, 93>>)
        @@ ("data/chunk_002.txt" :> <<123, 34, 97>>) @@ ("data/chunk_003.txt" :> <<34, 58, 49>>)
        @@ ("data/chunk_004.txt" :> <<125>>)

\* the server holds what externalize_to_directory writes for ServedDoc
ServedByTheRun ==
    /\ served.manifest =
           [k \in 1..Len(ExternalizedBlobs) |->
               [key |-> ExternalizedBlobs[k].key, strategy |-> ExternalizedBlobs[k].strategy,
                chunks |-> ExternalizedBlobs[k].chunks]]
    /\ DOMAIN served.files =
           UNION {{ExternalizedBlobs[b].chunks[c].path :
                      c \in 1..Len(ExternalizedBlobs[b].chunks)} :
                  b \in 1..Len(ExternalizedBlobs)}
    /\ \A path \in DOMAIN served.files : served.files[path] = file_at(path)

MANIFEST_JSON == "./manifest.json"

\* names every JavaScript object inherits from Object.prototype
ObjectPrototypeNames == {"constructor"}

\* the keys the page's scripts ask for: the manifest's, one the manifest
\* does not hold, and an inherited name
LoaderKeys ==
    {ServedManifest[k].key : k \in 1..Len(ServedManifest)}
        \cup {blob_key(Len(ServedManifest))} \cup ObjectPrototypeNames

\* req.status / response.status
Statuses == {0, 200, 299, 300, 404}

\* !(req.status < 200 || req.status >= 300) / response.ok
status_ok(status) == status >= 200 /\ status < 300

\* Object.prototype.hasOwnProperty.call(obj, key)
hasOwnProperty(obj, key) == key \in DOMAIN obj

\* obj[key] is truthy: an own entry, or a name inherited from Object.prototype
truthy_at(obj, key) == hasOwnProperty(obj, key) \/ key \in ObjectPrototypeNames

\* obj[key] = v
put(obj, key, v) == [k \in DOMAIN obj \cup {key} |-> IF k = key THEN v ELSE obj[k]]

InheritedMember == [key |-> "", strategy |-> "undefined", chunks |-> <<>>]

\* this._manifestIndex[key], the index buildIndex makes: the last blob with
\* the key, else an inherited member, else undefined
manifestIndex_at(blobs, key) ==
    LET hits == {k \in 1..Len(blobs) : blobs[k].key = key}
    IN  IF hits # {}
        THEN [found |-> TRUE,
              blob |-> blobs[CHOOSE k \in hits : \A j \in hits : j <= k]]
        ELSE IF key \in ObjectPrototypeNames
             THEN [found |-> TRUE, blob |-> InheritedMember]
        ELSE [found |-> FALSE, blob |-> InheritedMember]

chunk_paths(blob) == [k \in 1..Len(blob.chunks) |-> "./" \o blob.chunks[k].path]

\* reconstruct(blob, texts) with the texts the server's files decode to
reconstruct_served(blob) ==
    reconstruct(blob.strategy,
                [k \in 1..Len(blob.chunks) |->
                    decode_utf8(served.files[blob.chunks[k].path]).text])

\* a response delivered to the loader: its path and whether its status is
\* one of success
Response(path, ok) == [path |-> path, ok |-> ok]

\* the responses of getSync's loop over the chunks: every one succeeds
\* (failing = 0), or the one numbered failing is the first that does not
chunk_responses(paths, failing) ==
    [k \in 1..(IF failing > 0 THEN failing ELSE Len(paths)) |->
        Response(paths[k], k # failing)]

Call(method, key, outcome, returned) ==
    [method |-> method, key |-> key, outcome |-> outcome, value |-> returned]

\* mutant: the cache is not consulted
cache_hit_never(cache, key) == FALSE

\* Object.prototype.hasOwnProperty.call(this._cache, key)
cache_hit(cache, key) == hasOwnProperty(cache, key)

\* getManifestAsync: the promise state it leaves, the requests it makes and
\* what it returns: a promise already resolved, or this._manifestPromise;
\* where fetch is not defined, calling it throws a ReferenceError
getManifestAsync(manifest, promise, reqs, fetch_defined) ==
    IF manifest.loaded
    THEN [promise |-> promise, requests |-> reqs, returns |-> "resolved"]
    ELSE IF promise # "null"
         THEN [promise |-> promise, requests |-> reqs, returns |-> "shared"]
    ELSE IF ~fetch_defined
         THEN [promise |-> promise, requests |-> reqs, returns |-> "threw"]
    ELSE [promise |-> "pending", requests |-> Append(reqs, MANIFEST_JSON),
          returns |-> "shared"]

LoaderInit ==
    /\ has_fetch \in BOOLEAN
    /\ served = [manifest |-> ServedManifest, files |-> ServedFiles]
    /\ loader_pc = "start"
    /\ _manifest = [loaded |-> FALSE, blobs |-> <<>>]
    /\ _manifestPromise = "null"
    /\ _cache = <<>>
    /\ __KAROSPACE_DATA__ = <<>>
    /\ _blobPromises = <<>>
    /\ chunk_waits = <<>>
    /\ reading = {}
    /\ requests = <<>>
    /\ responses = <<>>
    /\ calls = 0
    /\ last_call = NoCall
    /\ completed = {}
    /\ html = <<>>
    /\ candidates = <<>>
    /\ scan_pc = "idle"
    /\ PlanIdle
    /\ RunIdle
    /\ SpliceIdle
    /\ InjectIdle
    /\ AssignIdle

\* the loader script runs: window.__KAROSPACE_DATA_LOADER__ = loader;
\* if (typeof fetch === "function") loader.getManifestAsync()
Bootstrap ==
    /\ loader_pc = "start"
    /\ loader_pc' = "ready"
    /\ IF has_fetch
       THEN LET r == getManifestAsync(_manifest, _manifestPromise, requests, has_fetch)
            IN  _manifestPromise' = r.promise /\ requests' = r.requests
       ELSE UNCHANGED <<_manifestPromise, requests>>
    /\ responses' = <<>>
    /\ UNCHANGED <<has_fetch, served, _manifest, _cache, __KAROSPACE_DATA__, _blobPromises,
                   chunk_waits, reading, calls, last_call, completed>>

MakeCall == loader_pc = "ready" /\ calls < MaxCalls /\ calls' = calls + 1

\* loader.getManifestSync()
GetManifestSync ==
    /\ MakeCall
    /\ IF _manifest.loaded
       THEN /\ last_call' = Call("getManifestSync", "", "returned", <<>>)
            /\ responses' = <<>>
            /\ UNCHANGED <<_manifest, requests>>
       ELSE /\ requests' = Append(requests, MANIFEST_JSON)
            /\ \E status \in Statuses :
                /\ responses' = <<Response(MANIFEST_JSON, status_ok(status))>>
                /\ IF status_ok(status)
                   THEN /\ _manifest' = [loaded |-> TRUE, blobs |-> served.manifest]
                        /\ last_call' = Call("getManifestSync", "", "returned", <<>>)
                   ELSE /\ last_call' = Call("getManifestSync", "", "threw", <<>>)
                        /\ UNCHANGED _manifest
    /\ UNCHANGED <<has_fetch, served, loader_pc, _manifestPromise, _cache, __KAROSPACE_DATA__,
                   _blobPromises, chunk_waits, reading, completed>>

\* loader.getManifestAsync()
GetManifestAsync ==
    /\ MakeCall
    /\ LET r == getManifestAsync(_manifest, _manifestPromise, requests, has_fetch)
       IN  /\ _manifestPromise' = r.promise
           /\ requests' = r.requests
           /\ last_call' = Call("getManifestAsync", "", r.returns, <<>>)
    /\ responses' = <<>>
    /\ UNCHANGED <<has_fetch, served, loader_pc, _manifest, _cache, __KAROSPACE_DATA__,
                   _blobPromises, chunk_waits, reading, completed>>

\* the first callback of fetch("./manifest.json"): the response has arrived.
\* Without success it throws and the promise is rejected; with success it
\* returns response.json(), and the body is read while the page goes on
ManifestResponse ==
    /\ _manifestPromise = "pending"
    /\ MANIFEST_JSON \notin reading
    /\ \E status \in Statuses :
           /\ responses' = <<Response(MANIFEST_JSON, status_ok(status))>>
           /\ IF status_ok(status)
              THEN /\ reading' = reading \cup {MANIFEST_JSON}
                   /\ UNCHANGED _manifestPromise
              ELSE /\ _manifestPromise' = "rejected"
                   /\ UNCHANGED reading
    /\ UNCHANGED <<has_fetch, served, loader_pc, _manifest, _cache, __KAROSPACE_DATA__,
                   _blobPromises, chunk_waits, requests, calls, last_call, completed>>

\* the second callback: the body has been read; self._manifest = manifest,
\* whatever a synchronous load has stored there meanwhile
ManifestThen ==
    /\ _manifestPromise = "pending"
    /\ MANIFEST_JSON \in reading
    /\ _manifest' = [loaded |-> TRUE, blobs |-> served.manifest]
    /\ _manifestPromise' = "fulfilled"
    /\ reading' = reading \ {MANIFEST_JSON}
    /\ responses' = <<>>
    /\ UNCHANGED <<has_fetch, served, loader_pc, _cache, __KAROSPACE_DATA__, _blobPromises,
                   chunk_waits, requests, calls, last_call, completed>>

\* loader.getSync(key)
GetSync(key) ==
    /\ MakeCall
    /\ IF cache_hit(_cache, key)
       THEN /\ last_call' = Call("getSync", key, "returned", <<_cache[key]>>)
            /\ completed' = completed \cup {key}
            /\ responses' = <<>>
            /\ UNCHANGED <<_manifest, _cache, __KAROSPACE_DATA__, requests>>
       ELSE \E status \in Statuses :
            LET fetched == ~_manifest.loaded
                reqs == IF fetched THEN Append(requests, MANIFEST_JSON) ELSE requests
                resps == IF fetched
                         THEN <<Response(MANIFEST_JSON, status_ok(status))>>
                         ELSE <<>>
                manifest == IF fetched THEN [loaded |-> TRUE, blobs |-> served.manifest]
                            ELSE _manifest
                hit == manifestIndex_at(manifest.blobs, key)
                paths == chunk_paths(hit.blob)
                result == reconstruct_served(hit.blob)
                throw == /\ last_call' = Call("getSync", key, "threw", <<>>)
                         /\ UNCHANGED <<_cache, __KAROSPACE_DATA__, completed>>
            IN  IF fetched /\ ~status_ok(status)
                THEN requests' = reqs /\ responses' = resps /\ throw
                     /\ UNCHANGED _manifest
                ELSE /\ _manifest' = manifest
                     /\ IF ~hit.found
                        THEN requests' = reqs /\ responses' = resps /\ throw
                        ELSE \E failing \in 0..Len(paths) :
                             /\ responses' = resps \o chunk_responses(paths, failing)
                             /\ IF failing > 0
                                THEN \* getTextSync throws at chunk number failing
                                     /\ requests' = reqs \o SubSeq(paths, 1, failing)
                                     /\ throw
                                ELSE /\ requests' = reqs \o paths
                                     /\ IF ~result.ok THEN throw
                                        ELSE /\ _cache' = put(_cache, key, result.val)
                                             /\ __KAROSPACE_DATA__' =
                                                    put(__KAROSPACE_DATA__, key, result.val)
                                             /\ last_call' = Call("getSync", key,
                                                                  "returned", <<result.val>>)
                                             /\ completed' = completed \cup {key}
    /\ UNCHANGED <<has_fetch, served, loader_pc, _manifestPromise, _blobPromises, chunk_waits,
                   reading>>

\* loader.getAsync(key), up to its return
GetAsync(key) ==
    /\ MakeCall
    /\ IF cache_hit(_cache, key)
       THEN /\ last_call' = Call("getAsync", key, "resolved", <<_cache[key]>>)
            /\ completed' = completed \cup {key}
            /\ UNCHANGED <<_manifestPromise, _blobPromises, chunk_waits, requests>>
       ELSE IF truthy_at(_blobPromises, key)
            THEN /\ last_call' = Call("getAsync", key,
                                      IF hasOwnProperty(_blobPromises, key) THEN "shared"
                                      ELSE "not_a_promise", <<>>)
                 /\ UNCHANGED <<_manifestPromise, _blobPromises, chunk_waits, requests,
                                completed>>
       ELSE LET r == getManifestAsync(_manifest, _manifestPromise, requests, has_fetch)
            IN  IF r.returns = "threw"
                THEN /\ last_call' = Call("getAsync", key, "threw", <<>>)
                     /\ UNCHANGED <<_manifestPromise, _blobPromises, chunk_waits,
                                    requests, completed>>
                ELSE /\ _manifestPromise' = r.promise
                     /\ requests' = r.requests
                     /\ _blobPromises' = put(_blobPromises, key,
                            IF r.returns = "resolved" THEN "then_ready"
                            ELSE "then_manifest")
                     /\ chunk_waits' = put(chunk_waits, key, {})
                     /\ last_call' = Call("getAsync", key, "shared", <<>>)
                     /\ UNCHANGED completed
    /\ responses' = <<>>
    /\ UNCHANGED <<has_fetch, served, loader_pc, _manifest, _cache, __KAROSPACE_DATA__, reading>>

\* the manifest promise getAsync chained on is rejected: so is the blob's
BlobManifestRejected(key) ==
    /\ hasOwnProperty(_blobPromises, key)
    /\ _blobPromises[key] = "then_manifest"
    /\ _manifestPromise = "rejected"
    /\ _blobPromises' = put(_blobPromises, key, "rejected")
    /\ responses' = <<>>
    /\ UNCHANGED <<has_fetch, served, loader_pc, _manifest, _manifestPromise, _cache,
                   __KAROSPACE_DATA__, chunk_waits, reading, requests, calls, last_call,
                   completed>>

\* this.getManifestAsync().then(function () {...}) of getAsync: the blob is
\* looked up and every chunk is fetched; with no chunk to wait for, the
\* value is reconstructed and stored at once
BlobThen(key) ==
    /\ hasOwnProperty(_blobPromises, key)
    /\ \/ _blobPromises[key] = "then_ready"
       \/ _blobPromises[key] = "then_manifest" /\ _manifestPromise = "fulfilled"
    /\ LET hit == manifestIndex_at(_manifest.blobs, key)
           result == reconstruct_served(hit.blob)
           reject == /\ _blobPromises' = put(_blobPromises, key, "rejected")
                     /\ UNCHANGED <<_cache, __KAROSPACE_DATA__, chunk_waits, requests,
                                    completed>>
       IN  IF ~hit.found THEN reject
           ELSE IF hit.blob.chunks = <<>>
                THEN IF ~result.ok THEN reject
                     ELSE /\ _blobPromises' = put(_blobPromises, key, "fulfilled")
                          /\ _cache' = put(_cache, key, result.val)
                          /\ __KAROSPACE_DATA__' = put(__KAROSPACE_DATA__, key, result.val)
                          /\ completed' = completed \cup {key}
                          /\ UNCHANGED <<chunk_waits, requests>>
           ELSE IF ~has_fetch THEN reject
           ELSE /\ _blobPromises' = put(_blobPromises, key, "chunks")
                /\ chunk_waits' = put(chunk_waits, key, 1..Len(hit.blob.chunks))
                /\ requests' = requests \o chunk_paths(hit.blob)
                /\ UNCHANGED <<_cache, __KAROSPACE_DATA__, completed>>
    /\ responses' = <<>>
    /\ UNCHANGED <<has_fetch, served, loader_pc, _manifest, _manifestPromise, reading, calls,
                   last_call>>

\* the paths of a blob's chunks, as a set
chunk_path_set(blob) == {chunk_paths(blob)[k] : k \in 1..Len(blob.chunks)}

\* the callback of one chunk fetch of getAsync's Promise.all: the response
\* has arrived.  Without success it throws and the blob's promise is
\* rejected; with success it returns response.text(), and the body is read
\* while the page goes on
ChunkResponse(key) ==
    /\ hasOwnProperty(_blobPromises, key)
    /\ _blobPromises[key] = "chunks"
    /\ \E c \in chunk_waits[key], status \in Statuses :
           LET blob == manifestIndex_at(_manifest.blobs, key).blob
           IN  /\ responses' = <<Response(chunk_paths(blob)[c], status_ok(status))>>
               /\ IF ~status_ok(status)
                  THEN /\ _blobPromises' = put(_blobPromises, key, "rejected")
                       /\ chunk_waits' = put(chunk_waits, key, {})
                       /\ reading' = reading \ chunk_path_set(blob)
                  ELSE /\ chunk_waits' = put(chunk_waits, key, chunk_waits[key] \ {c})
                       /\ reading' = reading \cup {chunk_paths(blob)[c]}
                       /\ UNCHANGED _blobPromises
    /\ UNCHANGED <<has_fetch, served, loader_pc, _manifest, _manifestPromise, _cache,
                   __KAROSPACE_DATA__, requests, calls, last_call, completed>>

\* the then callback of Promise.all: every chunk's body has been read; the
\* value is reconstructed and stored
ChunksThen(key) ==
    /\ hasOwnProperty(_blobPromises, key)
    /\ _blobPromises[key] = "chunks"
    /\ chunk_waits[key] = {}
    /\ LET blob == manifestIndex_at(_manifest.blobs, key).blob
           result == reconstruct_served(blob)
       IN  /\ reading' = reading \ chunk_path_set(blob)
           /\ IF ~result.ok
              THEN /\ _blobPromises' = put(_blobPromises, key, "rejected")
                   /\ UNCHANGED <<_cache, __KAROSPACE_DATA__, completed>>
              ELSE /\ _blobPromises' = put(_blobPromises, key, "fulfilled")
                   /\ _cache' = put(_cache, key, result.val)
                   /\ __KAROSPACE_DATA__' = put(__KAROSPACE_DATA__, key, result.val)
                   /\ completed' = completed \cup {key}
    /\ responses' = <<>>
    /\ UNCHANGED <<has_fetch, served, loader_pc, _manifest, _manifestPromise, chunk_waits,
                   requests, calls, last_call>>

LoaderNext ==
    /\ \/ Bootstrap
       \/ GetManifestSync
       \/ GetManifestAsync
       \/ ManifestResponse
       \/ ManifestThen
       \/ \E key \in LoaderKeys : GetSync(key)
       \/ \E key \in LoaderKeys : GetAsync(key)
       \/ \E key \in LoaderKeys : BlobManifestRejected(key)
       \/ \E key \in LoaderKeys : BlobThen(key)
       \/ \E key \in LoaderKeys : ChunkResponse(key)
       \/ \E key \in LoaderKeys : ChunksThen(key)
    /\ UNCHANGED <<planVars, scanVars, runVars, spliceVars, injectVars, assignVars>>

SpecLoader == LoaderInit /\ [][LoaderNext]_vars
----------------------------------------------------------------------------
(* Claims about the chunk planner, checked under SpecPlan.                 *)

\* C1: for every array and positive budget the array splitter returns a
\* non-empty list of slices whose in-order concatenation is the array, the
\* empty array gives one empty slice, and the loader's array_slices merge of
\* the written chunk files gives back the array.
C1_ArrayRoundTrip ==
    strategy = "array_slices" =>
        /\ plan_status = "ok"
        /\ Len(fragments) >= 1
        /\ ConcatAll(fragments) = value.v
        /\ (value.v = <<>> => fragments = <<<<>>>>)
        /\ (plan_pc = "loaded" => reconstructed = [ok |-> TRUE, val |-> value])

C1_Witness ==
    /\ plan_pc = "loaded"
    /\ strategy = "array_slices"
    /\ Len(fragments) >= 2
    /\ \E k \in 1..Len(fragments) : Len(fragments[k]) >= 2
    /\ reconstructed = [ok |-> TRUE, val |-> value]

\* byte offsets at which one text piece ends and the next begins
RECURSIVE piece_boundaries(_, _)
piece_boundaries(parts, offset) ==
    IF Len(parts) <= 1 THEN {}
    ELSE LET next == offset + Len(encode_utf8(Head(parts)))
         IN  {next} \cup piece_boundaries(Tail(parts), next)

\* C2: for every serialized text and every positive budget the text splitter
\* completes without error, its pieces concatenate to the text, and no piece
\* boundary falls inside a multi-byte UTF-8 sequence.
C2_TextRoundTrip ==
    strategy = "text_concat" =>
        /\ plan_status = "ok"
        /\ ConcatAll(fragments) = json_dumps(value)
        /\ \A b \in piece_boundaries(fragments, 0) :
               ~is_continuation(encode_utf8(json_dumps(value))[b + 1])
        /\ (plan_pc = "loaded" => reconstructed = [ok |-> TRUE, val |-> value])

\* what the code does keep: the round trip whenever the split completes
C2_TextRoundTripWhenCompleted ==
    (strategy = "text_concat" /\ plan_status = "ok") =>
        /\ ConcatAll(fragments) = json_dumps(value)
        /\ (plan_pc = "loaded" => reconstructed = [ok |-> TRUE, val |-> value])

\* an element that alone (with its two brackets) exceeds the budget
oversized_single(fragment) ==
    Len(fragment) = 1 /\ 2 + item_bytes_of(fragment[1]) > chunk_target_bytes

\* C3 as stated: every fragment is at most the budget, except an array
\* fragment holding exactly one element that alone exceeds the budget.
C3_FragmentBoundAsStated ==
    \A k \in 1..Len(files) :
        Len(files[k]) > chunk_target_bytes =>
            strategy = "array_slices" /\ oversized_single(fragments[k])

\* C3 amended: every fragment is at most the budget, except an array fragment
\* holding at most one element: one element that alone exceeds the budget, or
\* the 2-byte fragment [] of the empty array under a budget of 1.
C3_FragmentBound ==
    \A k \in 1..Len(files) :
        Len(files[k]) > chunk_target_bytes =>
            /\ strategy = "array_slices"
            /\ \/ oversized_single(fragments[k])
               \/ (value.v = <<>> /\ fragments[k] = <<>> /\ chunk_target_bytes = 1)

C3_Witness ==
    /\ plan_pc = "written"
    /\ strategy = "array_slices"
    /\ \E k \in 1..Len(fragments) :
           Len(fragments[k]) >= 2 /\ Len(files[k]) = chunk_target_bytes
    /\ \E k \in 1..Len(fragments) :
           oversized_single(fragments[k]) /\ Len(files[k]) > chunk_target_bytes

----------------------------------------------------------------------------
(* Claims about the boundary scanner, checked under SpecScan.              *)

\* the script elements of the document, as character spans
script_element_spans ==
    LET ms == script_matches(html, 0)
    IN  {[start |-> chars_before(html, ms[k].open),
          end |-> chars_before(html, ms[k].close + 1)] : k \in 1..Len(ms)}

\* C9: detect_candidates returns the candidates in strictly ascending order
\* of start, each span non-empty, each ending at or before the next one's
\* start, and each inside a script element of the document.
C9_CandidateOrdering ==
    scan_pc = "scanned" =>
        /\ \A k \in 1..Len(candidates) :
               /\ candidates[k].start < candidates[k].end
               /\ \E e \in script_element_spans :
                      e.start <= candidates[k].start /\ candidates[k].end <= e.end
        /\ \A k \in 1..(Len(candidates) - 1) :
               /\ candidates[k].start < candidates[k + 1].start
               /\ candidates[k].end <= candidates[k + 1].start

C9_Witness ==
    /\ scan_pc = "scanned"
    /\ Len(candidates) >= 3
    /\ \E k \in 1..(Len(candidates) - 1) :
           /\ candidates[k].detector = "js_assignment"
           /\ candidates[k + 1].detector = "js_assignment"
           /\ candidates[k].end = candidates[k + 1].start
    /\ \E k \in 1..Len(candidates) :
           candidates[k].detector = "script_json" /\ candidates[k].start > 0

\* the script-JSON candidates whose element has no usable id attribute
\* (absent, or present and empty), by index
synthesized == {k \in 1..Len(candidates) :
                   /\ candidates[k].detector = "script_json"
                   /\ LET id == extract_attr(candidates[k].script_attrs, "id")
                      IN  ~id.some \/ id.v = ""}

\* C10: every script-JSON candidate without a usable id gets
\* karospace_data_NNN, NNN the number of synthesized ids issued before it,
\* and no two script-JSON candidates share a script id.
C10_SynthesizedIds ==
    scan_pc = "scanned" =>
        /\ \A k \in synthesized :
               candidates[k].script_id =
                   Some(generated_script_id(Cardinality({j \in synthesized : j < k})))
        /\ \A j, k \in 1..Len(candidates) :
               (/\ j < k
                /\ candidates[j].detector = "script_json"
                /\ candidates[k].detector = "script_json")
               => candidates[j].script_id # candidates[k].script_id

\* what the code does keep: elements with no id attribute at all are
\* numbered in order among themselves
C10_AbsentIdsNumbered ==
    scan_pc = "scanned" =>
        \A k \in 1..Len(candidates) :
            (candidates[k].detector = "script_json" /\ ~candidates[k].script_had_id) =>
                candidates[k].script_id =
                    Some(generated_script_id(Cardinality(
                        {j \in 1..(k - 1) : /\ candidates[j].detector = "script_json"
                                            /\ ~candidates[j].script_had_id})))

----------------------------------------------------------------------------
(* Claims about the mode orchestrator, checked under SpecRun.              *)

ended == run_pc \in {"done", "failed"}

backup_effect == Effect("copy", BACKUP_PATH)

\* completed copies of the input to the backup path
backup_copies == Cardinality({k \in 1..Len(fs_log) : fs_log[k] = backup_effect})

\* times the backup file was created, the copy completed or not
backup_attempts == Cardinality({k \in 1..Len(fs_log) : fs_log[k].path = BACKUP_PATH})

\* the outputs of a mode: the single-file copy, the viewer directory and
\* the chunk, manifest and index files in it
mode_specific(effect) == effect.path \notin {"..", ".", BACKUP_DIR, BACKUP_PATH}

directory_output(effect) == mode_specific(effect) /\ effect.path # SINGLE_PATH

is_chunk_file(effect) ==
    /\ effect.op \in {"write", "write_partial"}
    /\ effect.path \notin {MANIFEST_PATH, INDEX_PATH}

config_invalid ==
    \/ ~validate_slug(args.slug)
    \/ args.chunk_half_bytes <= 0
    \/ args.threshold_half_bytes <= 0
    \/ args.same_file

\* C4: in a run with mode auto and at least one candidate, a total payload
\* at or under the threshold (args.threshold_mb * 1024 * 1024, not
\* truncated) takes the single-file path and writes nothing of the
\* directory layout; a total at least one byte over takes the directory
\* path and makes no single-file copy.
C4_AutoModeBoundary ==
    (args.mode = "auto" /\ candidates # <<>>) =>
        /\ run_pc # "decide" => path_taken # "none"
        /\ (path_taken # "none" /\ 2 * total_payload_bytes <= args.threshold_half_bytes) =>
               /\ path_taken = "single"
               /\ \A k \in 1..Len(fs_log) : ~directory_output(fs_log[k])
        /\ (path_taken # "none" /\ 2 * total_payload_bytes >= args.threshold_half_bytes + 2) =>
               /\ path_taken = "directory"
               /\ \A k \in 1..Len(fs_log) : fs_log[k].path # SINGLE_PATH

C4_Witness ==
    /\ run_pc = "done"
    /\ args.mode = "auto"
    /\ path_taken = "single"
    /\ 2 * total_payload_bytes = args.threshold_half_bytes
    /\ fs_log[Len(fs_log)] = Effect("copy", SINGLE_PATH)

\* the mode the run is in once auto is resolved; the total is 0 when
\* nothing is detected
mode_in_effect ==
    IF args.mode = "directory" THEN "directory"
    ELSE IF args.mode = "single" THEN "single"
    ELSE IF 2 * sum_payload_bytes(detect_candidates(html)) <= args.threshold_half_bytes
         THEN "single" ELSE "directory"

\* the RuntimeError run() and externalize_to_directory raise for lack of
\* candidates, as against one that resolving a path raises
zero_candidates_error ==
    error = "RuntimeError" /\ failed_at \in {"mode", "decide"} /\ path_taken # "single"

\* C5: a run aborts with the zero-candidates error exactly when nothing was
\* detected and the mode in effect is directory; a run whose mode in effect
\* is single copies the document and does not fail for lack of candidates.
\* (Stated for runs with a valid configuration.)
C5_DetectionFailure ==
    ~config_invalid =>
        /\ zero_candidates_error =>
               detect_candidates(html) = <<>> /\ mode_in_effect = "directory"
        /\ (/\ ended
            /\ failed_at \notin {"validate_slug", "check_input", "mkdir_outdir",
                                 "read_input", "backup"}
            /\ detect_candidates(html) = <<>>
            /\ mode_in_effect = "directory") => zero_candidates_error
        /\ (run_pc = "done" /\ mode_in_effect = "single") =>
               fs_log[Len(fs_log)] = Effect("copy", SINGLE_PATH)

early_steps == {"validate_slug", "check_input", "mkdir_outdir", "read_input", "backup"}

backup_precedes_outputs ==
    \A k \in 1..Len(fs_log) :
        mode_specific(fs_log[k]) => \E j \in 1..(k - 1) : fs_log[j] = backup_effect

\* C6 as stated: every run, whatever its outcome, has copied the backup
\* exactly once when it ends, and before any mode-specific output.
C6_BackupAsStated ==
    /\ ended => backup_copies = 1
    /\ backup_precedes_outputs

\* C6 amended: the backup file is created at most once and before any
\* mode-specific output; a run that got past the backup step (it succeeded
\* or failed later) has copied the input to it exactly once; a run that
\* failed at the slug check, the input checks, the output directory or the
\* read has not touched the backup path; a run that failed in the backup
\* step has completed no copy, the backup file being absent or left
\* incomplete; and neither has written a mode-specific output.
C6_BackupOrdering ==
    /\ backup_attempts <= 1
    /\ backup_precedes_outputs
    /\ (run_pc = "done" \/ (run_pc = "failed" /\ failed_at \notin early_steps)) =>
           backup_copies = 1
    /\ (run_pc = "failed" /\ failed_at \in early_steps \ {"backup"}) =>
           backup_attempts = 0
    /\ (run_pc = "failed" /\ failed_at \in early_steps) =>
           /\ backup_copies = 0
           /\ \A k \in 1..Len(fs_log) : ~mode_specific(fs_log[k])

C6_Witness ==
    /\ run_pc = "failed"
    /\ failed_at = "chunk"
    /\ backup_copies = 1
    /\ \E k \in 1..Len(fs_log) : is_chunk_file(fs_log[k]) /\ fs_log[k].op = "write"

\* C7: whenever the configuration is invalid the run ends in a fatal error
\* with no filesystem effect made.  (Runs that end on a missing input, on
\* an I/O error or for lack of candidates are left aside.)
C7_ConfigErrorsFirst ==
    (/\ config_invalid
     /\ ended
     /\ args.input = "file"
     /\ error \notin {"OSError", "RuntimeError"}) =>
        /\ run_pc = "failed"
        /\ error = "ValueError"
        /\ fs_log = <<>>

\* what the code does keep: an invalid slug is rejected before any effect
C7_InvalidSlugFirst ==
    (~validate_slug(args.slug) /\ run_pc # "validate_slug") =>
        run_pc = "failed" /\ error = "ValueError" /\ fs_log = <<>>

\* C8: when manifest.json is written every candidate has its blob in the
\* manifest, every chunk path the manifest lists has been written before,
\* no chunk file is written after it, and index.html is written only after
\* the manifest.
C8_ManifestAfterChunks ==
    /\ \A k \in 1..Len(fs_log) :
           fs_log[k].path = MANIFEST_PATH =>
               /\ Len(manifest_blobs) = Len(candidates)
               /\ \A b \in 1..Len(manifest_blobs) :
                      \A c \in 1..Len(manifest_blobs[b].chunks) :
                          \E j \in 1..(k - 1) :
                              fs_log[j] = Effect("write",
                                  "<slug>/" \o manifest_blobs[b].chunks[c].path)
               /\ \A j \in (k + 1)..Len(fs_log) : ~is_chunk_file(fs_log[j])
    /\ \A k \in 1..Len(fs_log) :
           fs_log[k].path = INDEX_PATH =>
               \E j \in 1..(k - 1) : fs_log[j] = Effect("write", MANIFEST_PATH)

C8_Witness ==
    /\ run_pc = "done"
    /\ path_taken = "directory"
    /\ Len(manifest_blobs) = 2
    /\ chunk_counter >= 3
    /\ fs_log[Len(fs_log)] = Effect("write", INDEX_PATH)


----------------------------------------------------------------------------
(* Claims about the rewritten document and the manifest of a directory     *)
(* run, checked under SpecRun.                                             *)

\* the document has been rewritten: index_html is what index.html gets
rewritten == path_taken = "directory" /\ run_pc \in {"index", "done"}

script_json_replacements ==
    {k \in 1..Len(replacements) : replacements[k].text.kind = "script_json"}

\* the id attribute of the empty script element a replacement emits
element_id(r) == extract_attr(r.text.element_attrs, "id")

\* C11: for every script-JSON candidate, whether its id attribute was
\* absent, non-empty or empty, the empty script element of its replacement
\* has an id attribute equal to the candidate's resolved script id, and that
\* is the id the inline script passes to document.getElementById.
C11_ReplacementCarriesId ==
    \A k \in script_json_replacements :
        /\ replacements[k].text.getElementById = candidates[k].script_id.v
        /\ element_id(replacements[k]) = Some(replacements[k].text.getElementById)

\* the same, for the candidates whose tag had no id or a non-empty one
C11_ReplacementCarriesIdUnlessEmpty ==
    \A k \in script_json_replacements :
        extract_attr(candidates[k].script_attrs, "id") # Some("") =>
            /\ replacements[k].text.getElementById = candidates[k].script_id.v
            /\ element_id(replacements[k]) = Some(replacements[k].text.getElementById)

manifest_keys == {manifest_blobs[k].key : k \in 1..Len(manifest_blobs)}

called_keys == {replacements[k].text.getSync : k \in 1..Len(replacements)}

\* piece stands in text from position p on
occurs_at(text, piece, p) ==
    /\ p + Len(piece) - 1 <= Len(text)
    /\ SubSeq(text, p, p + Len(piece) - 1) = piece

\* the positions of text at which piece stands
positions_of(text, piece) ==
    {p \in {q \in 1..Len(text) : text[q] = piece[1]} : occurs_at(text, piece, p)}

\* the replacement texts of the rewritten document, which call getSync, by
\* position
getSync_calls ==
    UNION {positions_of(index_html, replacement_text(replacements[k].text)) :
               k \in 1..Len(replacements)}

\* C12: in every directory run the manifest's blob entries have pairwise
\* distinct keys, the i-th candidate in start order has key blob_<i, three
\* digits>, the key a candidate's replacement passes to getSync is the key
\* of that candidate's manifest entry, and once the document is rewritten
\* the keys it calls are exactly the keys of the manifest.
C12_BlobKeys ==
    /\ Len(replacements) = Len(manifest_blobs)
    /\ Len(manifest_blobs) <= Len(candidates)
    /\ \A i, j \in 1..Len(manifest_blobs) :
           i # j => manifest_blobs[i].key # manifest_blobs[j].key
    /\ \A i, j \in 1..Len(candidates) : i < j => candidates[i].start < candidates[j].start
    /\ \A i \in 1..Len(manifest_blobs) :
           /\ manifest_blobs[i].key = "blob_" \o pad3(i - 1)
           /\ replacements[i].start = candidates[i].start
           /\ replacements[i].text.getSync = manifest_blobs[i].key
    /\ rewritten =>
           /\ Len(manifest_blobs) = Len(candidates)
           /\ called_keys = manifest_keys
           /\ Cardinality(getSync_calls) = Len(manifest_blobs)
           /\ \A k \in 1..Len(replacements) :
                  positions_of(index_html, replacement_text(replacements[k].text)) # {}

C12_Witness ==
    /\ run_pc = "done"
    /\ path_taken = "directory"
    /\ Len(manifest_blobs) = 2
    /\ manifest_blobs[2].key = "blob_001"
    /\ Cardinality(getSync_calls) = 2

\* every chunk entry made so far, in the order the files were written
RECURSIVE entries_of(_)
entries_of(blobs) ==
    IF blobs = <<>> THEN <<>> ELSE Head(blobs).chunks \o entries_of(Tail(blobs))

all_chunk_entries == entries_of(manifest_blobs) \o chunk_entries

\* the positions of fs_log at which a chunk file was created
chunk_writes ==
    {k \in 1..Len(fs_log) : is_chunk_file(fs_log[k])}

\* "data/chunk_NNN" of a path, which holds the chunk index
has_chunk_index(path, n) ==
    path \in {"data/chunk_" \o pad3(n) \o ".json", "data/chunk_" \o pad3(n) \o ".txt"}

\* C13: one chunk counter starts at 0 and goes up by one per chunk file
\* written by either strategy, so the chunk indices over all blobs are
\* 0..n-1 in order, no two chunk entries share a path, no chunk file is
\* written twice, and chunks_written is the number of chunk entries.
C13_ChunkNames ==
    /\ chunk_counter = Len(all_chunk_entries)
    /\ \A k \in 1..Len(all_chunk_entries) : has_chunk_index(all_chunk_entries[k].path, k - 1)
    /\ \A i, j \in 1..Len(all_chunk_entries) :
           i # j => all_chunk_entries[i].path # all_chunk_entries[j].path
    /\ \A i, j \in chunk_writes : i # j => fs_log[i].path # fs_log[j].path
    /\ Cardinality({k \in chunk_writes : fs_log[k].op = "write"}) = chunk_counter
    /\ run_pc = "done" /\ path_taken = "directory" =>
           chunk_counter = Len(entries_of(manifest_blobs))

C13_Witness ==
    /\ run_pc = "done"
    /\ Len(manifest_blobs) = 2
    /\ manifest_blobs[1].strategy # manifest_blobs[2].strategy
    /\ Len(manifest_blobs[1].chunks) >= 2
    /\ Len(manifest_blobs[2].chunks) >= 2
    /\ chunk_counter >= 4

loader_positions == positions_of(index_html, loader_script)

\* C20: in every index.html a directory run produces, the loader runtime
\* script stands at a lower offset than every replacement text that calls
\* getSync, wherever the candidates stand relative to the first <head> or
\* <html> tag (documents that already hold the marker set aside).
C20_LoaderBeforeUse ==
    (rewritten /\ ~marker_in(html)) =>
        \E l \in loader_positions : \A p \in getSync_calls : l < p

\* the same, for documents without the marker whose candidates all come
\* after the tag the loader is put behind
C20_LoaderBeforeUseAfterTag ==
    LET tag == IF first_at(html, 0, {"HEAD"}) < Len(html) THEN first_at(html, 0, {"HEAD"})
               ELSE IF first_at(html, 0, {"HTML"}) < Len(html)
                    THEN first_at(html, 0, {"HTML"})
               ELSE -1
    IN  (/\ rewritten
         /\ ~marker_in(html)
         /\ \A k \in 1..Len(candidates) : candidates[k].start > chars_before(html, tag))
        => \E l \in loader_positions : \A p \in getSync_calls : l < p

----------------------------------------------------------------------------
(* Claims about apply_replacements, checked under SpecSplice, and about    *)
(* ensure_loader_runtime, checked under SpecInject.                        *)

empty_spans_at(rs, pos) == {k \in 1..Len(rs) : rs[k].start = pos /\ rs[k].end = pos}

filled_spans_at(rs, pos) == {k \in 1..Len(rs) : rs[k].start = pos /\ rs[k].end > pos}

\* the untouched segments of text from pos on, interleaved with the
\* replacement texts in ascending span order: at each position the text of
\* an empty span there, then either the text of the span that starts there
\* or the character itself
RECURSIVE interleaving(_, _, _, _)
interleaving(text, rs, pos, empty_done) ==
    IF ~empty_done /\ empty_spans_at(rs, pos) # {}
    THEN rs[CHOOSE k \in empty_spans_at(rs, pos) : TRUE].text
             \o interleaving(text, rs, pos, TRUE)
    ELSE IF filled_spans_at(rs, pos) # {}
         THEN LET k == CHOOSE k \in filled_spans_at(rs, pos) : TRUE
              IN  rs[k].text \o interleaving(text, rs, rs[k].end, FALSE)
    ELSE IF pos < Len(text)
         THEN <<text[pos + 1]>> \o interleaving(text, rs, pos + 1, FALSE)
    ELSE <<>>

distinct_spans(rs) ==
    \A i, j \in 1..Len(rs) :
        i # j => (rs[i].start # rs[j].start \/ rs[i].end # rs[j].end)

\* C17 as stated: for every text and every list of pairwise non-overlapping
\* half-open spans with replacement texts, in any order, apply_replacements
\* returns the untouched segments interleaved with the replacement texts in
\* ascending span order.
C17_SpanReplacementAsStated ==
    (splice_pc = "applied" /\ distinct_spans(replacements)) =>
        spliced = interleaving(html, replacements, 0, FALSE)

\* an empty span with a text to insert is listed before another span
\* that starts where it is
insertion_listed_first(rs) ==
    \E i, j \in 1..Len(rs) :
        /\ i < j
        /\ rs[i].start = rs[i].end
        /\ rs[i].text # <<>>
        /\ rs[j].start = rs[i].start

\* C17: the same, empty spans included, for every list in which no empty
\* span with a text to insert is listed before another span that starts
\* where it is.
C17_SpanReplacement ==
    (/\ splice_pc = "applied"
     /\ distinct_spans(replacements)
     /\ ~insertion_listed_first(replacements)) =>
        spliced = interleaving(html, replacements, 0, FALSE)

\* an insertion listed after the span that starts where it is
C17_Witness ==
    /\ splice_pc = "applied"
    /\ Len(replacements) = 2
    /\ replacements[1].start < replacements[1].end
    /\ replacements[2].start = replacements[1].start
    /\ replacements[2].end = replacements[2].start
    /\ replacements[1].text = <<"NL", "SP">>
    /\ replacements[2].text = <<"NL">>
    /\ replacements[1].end < Len(html)
    /\ spliced = SubSeq(html, 1, replacements[1].start) \o <<"NL", "NL", "SP">>
                     \o SubSeq(html, replacements[1].end + 1, Len(html))

marker_count(text) == Cardinality({k \in 1..Len(text) : text[k] = "MARK"})

\* the position after which the loader belongs: the first <head> tag, else
\* the first <html> tag, else the start of the document
loader_place(text) ==
    IF \E k \in 1..Len(text) : text[k] = "HEAD"
    THEN CHOOSE k \in 1..Len(text) : text[k] = "HEAD" /\ \A j \in 1..(k - 1) : text[j] # "HEAD"
    ELSE IF \E k \in 1..Len(text) : text[k] = "HTML"
         THEN CHOOSE k \in 1..Len(text) :
                  text[k] = "HTML" /\ \A j \in 1..(k - 1) : text[j] # "HTML"
    ELSE 0

\* the result is the document with one loader snippet at the place
one_snippet_at_place(text, result) ==
    LET p == loader_place(text)
        snippet == IF p = 0 THEN loader_script \o <<"NL">>
                   ELSE <<"NL">> \o loader_script \o <<"NL">>
    IN  /\ result = SubSeq(text, 1, p) \o snippet \o SubSeq(text, p + 1, Len(text))
        /\ Cardinality(positions_of(result, loader_script)) = 1

injection_contract ==
    /\ inject_pc \in {"once", "twice"} =>
           IF marker_in(html) THEN index_html = html
           ELSE one_snippet_at_place(html, index_html)
    /\ inject_pc = "twice" => index_html_again = index_html

\* C18 as stated: the document comes back unchanged when it holds the
\* marker, otherwise with exactly one loader snippet right after the first
\* <head> tag, else after the first <html> tag, else at its start, all
\* other text unchanged; a second application changes nothing; and the
\* output always holds the marker exactly as often as one injection adds
\* it, that is once.
C18_InjectionAsStated ==
    /\ injection_contract
    /\ inject_pc \in {"once", "twice"} => marker_count(index_html) = 1

\* C18: the same, with the marker count of the output being that of the
\* input when the input holds the marker, and one otherwise.
C18_Injection ==
    /\ injection_contract
    /\ inject_pc \in {"once", "twice"} =>
           marker_count(index_html) = (IF marker_in(html) THEN marker_count(html) ELSE 1)
    /\ inject_pc = "twice" => marker_count(index_html_again) = marker_count(index_html)

C18_Witness ==
    /\ inject_pc = "twice"
    /\ html = <<"HTML", "HEAD", "TXT">>
    /\ index_html = <<"HTML", "HEAD", "NL">> \o loader_script \o <<"NL", "TXT">>
    /\ index_html_again = index_html

----------------------------------------------------------------------------
(* Claims about detect_assignment_candidates, checked under SpecAssign.    *)
(* Positions are compared as character offsets into the script body.       *)

offset_of(pos) == chars_before(assign_body, pos)

pass_made == assign_pc = "loop" /\ iterations' = iterations + 1

failed_pass == pass_made /\ current_match.start >= assign_consumed_until /\ match_fails(current_match)

successful_pass ==
    pass_made /\ current_match.start >= assign_consumed_until /\ ~match_fails(current_match)

\* what holds of every pass whatever the resume position after a failure
recovery_and_progress ==
    /\ failed_pass => /\ candidates' = candidates
                      /\ assign_pc' = "loop"
                      /\ offset_of(assign_scan_pos') > offset_of(current_match.start)
    /\ successful_pass =>
           /\ Len(candidates') = Len(candidates) + 1
           /\ offset_of(assign_scan_pos') =
                  offset_of(statement_end(assign_body,
                      raw_decode(assign_body,
                          skip_whitespace(assign_body, current_match.end)).end))
    /\ pass_made => offset_of(assign_scan_pos') > offset_of(assign_scan_pos)

\* C19 as stated: a failed match gives no candidate, is not fatal, and the
\* scan resumes strictly after the failed match's start and not at its end;
\* after a success it resumes at the statement's end; the scan position
\* goes up on every pass and the scan ends for every script body.
C19_ScanRecoveryAsStated ==
    [][/\ recovery_and_progress
       /\ failed_pass => offset_of(assign_scan_pos') # offset_of(current_match.end)]_vars

\* C19: the same, with the scan resuming at the failed match's end, which
\* lies strictly after its start.
C19_ScanRecovery ==
    /\ [][/\ recovery_and_progress
          /\ failed_pass => offset_of(assign_scan_pos') = offset_of(current_match.end)]_vars
    /\ [](/\ assign_scan_pos <= Len(assign_body)
          /\ iterations <= Len(assign_body)
          /\ assign_pc = "returned" =>
                 candidates = detect_assignment_candidates(assign_body, 0))
    /\ <>(assign_pc = "returned")

C19_Witness ==
    /\ assign_pc = "returned"
    /\ assign_body = <<"VAR", "BAD", "WIN", "ARR">>
    /\ iterations = 2
    /\ Len(candidates) = 1
    /\ candidates[1].start = 9

----------------------------------------------------------------------------
(* Claims about the loader runtime.                                        *)

RECURSIVE requests_for(_, _)
requests_for(path, reqs) ==
    IF reqs = <<>> THEN 0
    ELSE (IF Head(reqs) = path THEN 1 ELSE 0) + requests_for(path, Tail(reqs))

manifest_requests == requests_for(MANIFEST_JSON, requests)

\* C14: across any interleaving of getManifestSync, getManifestAsync,
\* getSync and getAsync calls, the bootstrap's own getManifestAsync call
\* included, at most one request for manifest.json is ever issued.
C14_ManifestLoadedOnce == manifest_requests <= 1

\* the part of C14 the loader keeps: calls of getManifestAsync made while
\* its fetch is in flight share that fetch and issue no request
C14_AsyncCallsShareFetch ==
    [][(_manifestPromise = "pending" /\ calls' = calls + 1
            /\ last_call'.method = "getManifestAsync")
        => (requests' = requests /\ _manifestPromise' = _manifestPromise
            /\ last_call'.outcome = (IF _manifest.loaded THEN "resolved" ELSE "shared"))]_vars

\* the value the page held under a key before it was externalized
original_value(key) ==
    LET cs == detect_candidates(ServedDoc)
    IN  cs[CHOOSE k \in 1..Len(cs) : blob_key(k - 1) = key].value

\* this step is a call of getSync(key) or getAsync(key)
blob_call(key) ==
    /\ calls' = calls + 1
    /\ last_call'.method \in {"getSync", "getAsync"}
    /\ last_call'.key = key

\* at every moment the global data cache holds each cached key, same value
mirrored ==
    \A key \in DOMAIN _cache :
        key \in DOMAIN __KAROSPACE_DATA__ /\ __KAROSPACE_DATA__[key] = _cache[key]

\* C15: once a getSync(key) or getAsync(key) has completed successfully,
\* every later getSync(key) or getAsync(key) returns the cached value and
\* issues no chunk or manifest request; and whenever a key is in the
\* loader's cache, window.__KAROSPACE_DATA__ holds the same value under it.
C15_BlobCache ==
    /\ [][\A key \in completed :
              /\ completed \subseteq completed'
              /\ blob_call(key) =>
                    /\ requests' = requests
                    /\ last_call'.outcome \in {"returned", "resolved"}
                    /\ last_call'.value = <<_cache[key]>>
                    /\ last_call'.value = <<original_value(key)>>]_vars
    /\ [](mirrored)

\* a key completed asynchronously is read again by getAsync
C15_Witness ==
    /\ calls = MaxCalls
    /\ last_call.method = "getAsync"
    /\ last_call.outcome = "resolved"
    /\ last_call.key \in completed
    /\ hasOwnProperty(_blobPromises, last_call.key)
    /\ _blobPromises[last_call.key] = "fulfilled"
    /\ last_call.value = <<__KAROSPACE_DATA__[last_call.key]>>
    /\ Len(requests) >= 3

in_manifest(key) == \E k \in 1..Len(ServedManifest) : ServedManifest[k].key = key

chunk_paths_of(key) ==
    UNION {{"./" \o ServedManifest[b].chunks[c].path :
               c \in 1..Len(ServedManifest[b].chunks)} :
           b \in {k \in 1..Len(ServedManifest) : ServedManifest[k].key = key}}

\* this step delivers a response without success to a chunk request of the key
failed_chunk(key) ==
    \E k \in 1..Len(responses') :
        ~responses'[k].ok /\ responses'[k].path \in chunk_paths_of(key)

caches_kept == _cache' = _cache /\ __KAROSPACE_DATA__' = __KAROSPACE_DATA__

\* what a failed access must look like, for the keys of the set
failed_accesses(keys) ==
    \A key \in keys :
        /\ (blob_call(key) /\ last_call'.method = "getSync"
                /\ (~in_manifest(key) \/ failed_chunk(key)))
           => (last_call'.outcome = "threw" /\ caches_kept)
        /\ (blob_call(key) /\ last_call'.method = "getAsync" /\ ~in_manifest(key))
           => (last_call'.outcome \in {"shared", "threw"} /\ caches_kept)
        /\ (calls' = calls /\ failed_chunk(key))
           => (_blobPromises'[key] = "rejected" /\ caches_kept)

\* the promise of a key the manifest does not hold is never fulfilled
absent_never_fulfilled ==
    \A key \in DOMAIN _blobPromises :
        ~in_manifest(key) => _blobPromises[key] \notin {"chunks", "fulfilled"}

\* every cached value is the whole original value of a key of the manifest
cached_values_right ==
    \A key \in DOMAIN _cache \cup DOMAIN __KAROSPACE_DATA__ :
        /\ in_manifest(key)
        /\ key \in DOMAIN _cache => _cache[key] = original_value(key)
        /\ key \in DOMAIN __KAROSPACE_DATA__ =>
               __KAROSPACE_DATA__[key] = original_value(key)

\* C16: getSync(key) throws and getAsync(key) rejects whenever the key is
\* absent from the manifest or one of the blob's chunk fetches has a status
\* outside 200-299, and then no value is stored for the key in the loader's
\* cache or in the global data cache: no partial or wrong value is cached.
C16_LoaderFailure ==
    /\ [][failed_accesses(LoaderKeys)]_vars
    /\ [](absent_never_fulfilled)
    /\ [](cached_values_right)

\* the same for the keys that name no member of Object.prototype
C16_LoaderFailureOwnNames ==
    /\ [][failed_accesses(LoaderKeys \ ObjectPrototypeNames)]_vars
    /\ [](absent_never_fulfilled)
    /\ [](cached_values_right)
====
